---- MODULE Spec2Model ----
(***************************************************************************)
(* Model of the DM-Backend fragmentation directory                         *)
(* (internal/database/fragmentation.go) on top of the LevelDB store that   *)
(* internal/database opens per call (CreateLevelDBDatabase / buildPath).   *)
(*                                                                         *)
(* An int64 is a 64-bit two's complement word, kept as four 16-bit limbs   *)
(* <<l3, l2, l1, l0>> (most significant first) so that the int64 extremes  *)
(* are ordinary values of the model.  A stored value is the byte string    *)
(* LevelDB holds: a sequence of one-character strings.                     *)
(***************************************************************************)
EXTENDS Integers, Sequences, FiniteSets, TLC

\* ---------------------------------------------------------------- bounds
\* callers of the concurrent specification
NumCallers == 2
\* longest key list of one FragmentationAdd, sequential and concurrent
MaxKeys == 3
MaxKeysConc == 1
\* most components of one call of buildPath or CreateLevelDBDatabase
MaxComponents == 4
\* the longest path handed to CleanPath, in characters
MaxPathLen == 5
\* the most messages a stored chat history grows to
MaxHistory == 2
\* the calls of Allow in one run, and the ticks the clock runs
MaxCalls == 5
MaxTicks == 4
\* the requests the chat handler posts to the AI service in one run
MaxPosts == 3

\* ----------------------------------------------------- 64-bit arithmetic
LimbBase == 2^16
LimbMax == LimbBase - 1

Zero == <<0, 0, 0, 0>>
Seven == <<0, 0, 0, 7>>
MinusOne == <<LimbMax, LimbMax, LimbMax, LimbMax>>
MaxInt64 == <<32767, LimbMax, LimbMax, LimbMax>>
MinInt64 == <<32768, 0, 0, 0>>

\* int64(u) < 0: the sign bit of the word
IsNegative(v) == v[1] >= 32768

\* u + d on uint64, wrapping modulo 2^64 (d a small natural)
AddSmall(u, d) ==
    LET t4 == u[4] + d
        t3 == u[3] + (t4 \div LimbBase)
        t2 == u[2] + (t3 \div LimbBase)
        t1 == u[1] + (t2 \div LimbBase)
    IN  <<t1 % LimbBase, t2 % LimbBase, t3 % LimbBase, t4 % LimbBase>>

\* -u on a 64-bit word: complement and add one
Negate(u) ==
    AddSmall(<<LimbMax - u[1], LimbMax - u[2], LimbMax - u[3], LimbMax - u[4]>>, 1)

\* u * 10 on uint64, wrapping modulo 2^64
MulTen(u) ==
    LET t4 == u[4] * 10
        t3 == u[3] * 10 + (t4 \div LimbBase)
        t2 == u[2] * 10 + (t3 \div LimbBase)
        t1 == u[1] * 10 + (t2 \div LimbBase)
    IN  <<t1 % LimbBase, t2 % LimbBase, t3 % LimbBase, t4 % LimbBase>>

\* u / 10 and u % 10 on uint64
DivModTen(u) ==
    LET c1 == u[1]
        c2 == (c1 % 10) * LimbBase + u[2]
        c3 == (c2 % 10) * LimbBase + u[3]
        c4 == (c3 % 10) * LimbBase + u[4]
    IN  [q |-> <<c1 \div 10, c2 \div 10, c3 \div 10, c4 \div 10>>, r |-> c4 % 10]

\* u < w on uint64
Less(u, w) ==
    \E i \in 1..4 : u[i] < w[i] /\ \A j \in 1..(i - 1) : u[j] = w[j]

\* ----------------------------------------------------------- conversions
DigitChar == <<"0", "1", "2", "3", "4", "5", "6", "7", "8", "9">>

IsDigit(ch) == \E d \in 0..9 : DigitChar[d + 1] = ch

DigitVal(ch) == CHOOSE d \in 0..9 : DigitChar[d + 1] = ch

\* fmt's integer formatting of an unsigned word in base 10
RECURSIVE FormatUint(_)
FormatUint(u) ==
    IF Less(u, <<0, 0, 0, 10>>)
    THEN <<DigitChar[u[4] + 1]>>
    ELSE FormatUint(DivModTen(u).q) \o <<DigitChar[DivModTen(u).r + 1]>>

\* Sprintf formatting the word as unsigned (%d taken for %u)
SprintfUnsigned(v) == FormatUint(v)

\* string(rune(shard)) in place of Sprintf: one character that is no digit
SprintfRune(v) == <<"?">>

\* fmt.Sprintf("%d", shard)
Sprintf(v) ==
    IF IsNegative(v) THEN <<"-">> \o FormatUint(Negate(v)) ELSE FormatUint(v)

\* strconv.ParseUint(s, 10, 64): cutoff = maxUint64/10 + 1
UintCutoff == <<6553, 39321, 39321, 39322>>

RECURSIVE ParseDigits(_, _, _)
ParseDigits(s, i, n) ==
    IF i > Len(s) THEN [n |-> n, err |-> "nil"]
    ELSE IF ~IsDigit(s[i]) THEN [n |-> Zero, err |-> "syntax"]
    ELSE IF ~Less(n, UintCutoff) THEN [n |-> MinusOne, err |-> "range"]
    ELSE LET n10 == MulTen(n)
             n1 == AddSmall(n10, DigitVal(s[i]))
         IN  IF Less(n1, n10) THEN [n |-> MinusOne, err |-> "range"]
             ELSE ParseDigits(s, i + 1, n1)

ParseUint(s) ==
    IF Len(s) = 0 THEN [n |-> Zero, err |-> "syntax"] ELSE ParseDigits(s, 1, Zero)

\* strconv.ParseInt(string(shard), 10, 64)
ParseInt(s) ==
    IF Len(s) = 0 THEN [n |-> Zero, err |-> "syntax"]
    ELSE LET neg == s[1] = "-"
             body == IF s[1] = "+" \/ s[1] = "-" THEN Tail(s) ELSE s
             un == ParseUint(body)
         IN  IF un.err = "syntax" THEN [n |-> Zero, err |-> "syntax"]
             ELSE IF ~neg /\ ~Less(un.n, MinInt64) THEN [n |-> MaxInt64, err |-> "range"]
             ELSE IF neg /\ Less(MinInt64, un.n) THEN [n |-> MinInt64, err |-> "range"]
             ELSE IF un.err = "range" THEN [n |-> MaxInt64, err |-> "range"]
             ELSE [n |-> IF neg THEN Negate(un.n) ELSE un.n, err |-> "nil"]

\* ------------------------------------------------------------------ paths
\* A path or path component is the sequence of its characters.
\* the least and the greatest of a non-empty set of positions
First(S) == CHOOSE i \in S : \A j \in S : i <= j

Last(S) == CHOOSE i \in S : \A j \in S : j <= i

\* s without the leading and trailing characters that are in cutset
TrimSet(s, cutset) ==
    LET keep == {i \in 1..Len(s) : s[i] \notin cutset}
    IN  IF keep = {} THEN <<>> ELSE SubSeq(s, First(keep), Last(keep))

\* strings.TrimSpace(p)
TrimSpace(s) == TrimSet(s, {" ", "\t", "\n", "\r"})

\* strings.Trim(p, "/")
Trim(s) == TrimSet(s, {"/"})

\* the elements of a path between its separators, empty ones included
RECURSIVE Elements(_)
Elements(s) ==
    LET slashes == {i \in 1..Len(s) : s[i] = "/"}
    IN  IF slashes = {} THEN <<s>>
        ELSE <<SubSeq(s, 1, First(slashes) - 1)>>
                 \o Elements(SubSeq(s, First(slashes) + 1, Len(s)))

\* path.Clean, element by element: drop empty elements and ".", let ".." take
\* back the element before it (at the root it is dropped, in front of a
\* relative path it stays)
RECURSIVE CleanElements(_, _, _)
CleanElements(elems, rooted, out) ==
    IF elems = <<>> THEN out
    ELSE IF Head(elems) = <<>> \/ Head(elems) = <<".">>
    THEN CleanElements(Tail(elems), rooted, out)
    ELSE IF Head(elems) # <<".", ".">>
    THEN CleanElements(Tail(elems), rooted, Append(out, Head(elems)))
    ELSE IF Len(out) > 0 /\ out[Len(out)] # <<".", ".">>
    THEN CleanElements(Tail(elems), rooted, SubSeq(out, 1, Len(out) - 1))
    ELSE IF rooted THEN CleanElements(Tail(elems), rooted, out)
    ELSE CleanElements(Tail(elems), rooted, Append(out, Head(elems)))

\* the elements written with one separator between them
RECURSIVE WithSeparators(_)
WithSeparators(elems) ==
    IF elems = <<>> THEN <<>>
    ELSE IF Len(elems) = 1 THEN elems[1]
    ELSE elems[1] \o <<"/">> \o WithSeparators(Tail(elems))

\* path.Clean(p)
Clean(p) ==
    IF p = <<>> THEN <<".">>
    ELSE LET rooted == p[1] = "/"
             out == CleanElements(Elements(p), rooted, <<>>)
         IN  IF rooted THEN <<"/">> \o WithSeparators(out)
             ELSE IF out = <<>> THEN <<".">>
             ELSE WithSeparators(out)

\* path.Join's buffer: empty elements in front are left out, every element
\* after the first one kept is appended behind a separator
RECURSIVE JoinBuffer(_, _)
JoinBuffer(elems, buf) ==
    IF elems = <<>> THEN buf
    ELSE IF Len(buf) > 0 THEN JoinBuffer(Tail(elems), buf \o <<"/">> \o Head(elems))
    ELSE JoinBuffer(Tail(elems), Head(elems))

\* path.Join(elem...)
Join(elems) ==
    IF \A i \in 1..Len(elems) : elems[i] = <<>> THEN <<>>
    ELSE Clean(JoinBuffer(elems, <<>>))

\* path.Clean first and strings.Trim on its result
CleanPathTrimLast(p) == Trim(Clean(p))

\* CleanPath(p)
CleanPath(p) == Clean(Trim(p))

\* ------------------------------------------------------------- directories
\* the directories that exist whatever the program has created
AlwaysDirs == {<<".">>, <<"/">>, <<".", ".">>}

\* os.Stat(p) finds a directory in the file system fs
IsDir(fs, p) == p \in fs \/ p \in AlwaysDirs

\* p and the directories above it
Prefixes(p) ==
    {SubSeq(p, 1, i) : i \in {j \in 1..Len(p) : j = Len(p) \/ p[j + 1] = "/"}}

\* os.MkdirAll(p, 0755): makes the missing directories from the top down; a
\* fault stops it at the first missing one ("mkdir") or at p itself, after
\* the directories above p were made ("mkdirChild"); the empty path has no
\* directory to make
MkdirAll(fs, p, fault) ==
    LET missing == {q \in Prefixes(p) : ~IsDir(fs, q)}
    IN  IF p = <<>> \/ fault = "mkdir" THEN [ok |-> FALSE, dirs |-> fs]
        ELSE IF fault = "mkdirChild" THEN [ok |-> FALSE, dirs |-> fs \cup (missing \ {p})]
        ELSE [ok |-> TRUE, dirs |-> fs \cup missing]

\* buildPath that counts one component as enough
buildPathOneComponent(fs, params, fault) ==
    IF Len(params) < 1 THEN [path |-> <<>>, err |-> "ErrInvalidPath", dirs |-> fs]
    ELSE LET cleanedParams == [i \in 1..Len(params) |-> TrimSpace(params[i])]
             dir == Join(SubSeq(cleanedParams, 1, IF Len(params) < 2 THEN 1 ELSE 2))
             made == IF IsDir(fs, dir) THEN [ok |-> TRUE, dirs |-> fs]
                     ELSE MkdirAll(fs, dir, fault)
         IN  IF ~made.ok
             THEN [path |-> <<>>, err |-> "failed to create directory", dirs |-> made.dirs]
             ELSE [path |-> IF Len(params) > 2 THEN Join(<<dir, cleanedParams[3]>>) ELSE dir,
                   err |-> "nil", dirs |-> made.dirs]

\* buildPath that joins the components as they are passed
buildPathUntrimmed(fs, params, fault) ==
    IF Len(params) < 2 THEN [path |-> <<>>, err |-> "ErrInvalidPath", dirs |-> fs]
    ELSE LET dir == Join(<<params[1], params[2]>>)
             made == IF IsDir(fs, dir) THEN [ok |-> TRUE, dirs |-> fs]
                     ELSE MkdirAll(fs, dir, fault)
         IN  IF ~made.ok
             THEN [path |-> <<>>, err |-> "failed to create directory", dirs |-> made.dirs]
             ELSE [path |-> IF Len(params) > 2 THEN Join(<<dir, params[3]>>) ELSE dir,
                   err |-> "nil", dirs |-> made.dirs]

\* buildPath(params...) on the file system fs: the path, the error and the
\* file system it leaves
buildPath(fs, params, fault) ==
    IF Len(params) < 2 THEN [path |-> <<>>, err |-> "ErrInvalidPath", dirs |-> fs]
    ELSE LET cleanedParams == [i \in 1..Len(params) |-> TrimSpace(params[i])]
             dir == Join(<<cleanedParams[1], cleanedParams[2]>>)
             made == IF IsDir(fs, dir) THEN [ok |-> TRUE, dirs |-> fs]
                     ELSE MkdirAll(fs, dir, fault)
         IN  IF ~made.ok
             THEN [path |-> <<>>, err |-> "failed to create directory", dirs |-> made.dirs]
             ELSE [path |-> IF Len(params) > 2 THEN Join(<<dir, cleanedParams[3]>>) ELSE dir,
                   err |-> "nil", dirs |-> made.dirs]

\* ------------------------------------------------------------ input sets
Callers == 1..NumCallers
NoCaller == 0

\* the one caller of the sequential specification
SeqCallers == {1}

\* "" is the empty key the validation rejects
Keys == {"", "a", "b"}

Shards == {Zero, Seven, MinusOne, MaxInt64, MinInt64}

KeyLists == UNION {[1..n -> Keys] : n \in 0..MaxKeys}

\* the smaller inputs of the concurrent specification
KeysConc == {"a", "b"}

ShardsConc == {MaxInt64, MinInt64}

KeyListsConc == UNION {[1..n -> KeysConc] : n \in 0..MaxKeysConc}

\* ------------------------------------------------------------------ state
VARIABLES
    store,      \* LevelDB contents: present key -> stored bytes (GlobalSchema for
                \* the fragmentation directory, Common/Shard_0.sqlite for records)
    written,    \* per present key, the argument of the Put that stored it (the
                \* int64 shard; the record for users and chat histories)
    dirs,       \* directories that exist on disk
    lock,       \* caller whose open handle holds the LevelDB file lock, or NoCaller
    pc,         \* per caller: position inside the operation it is running
    op,         \* per caller: the call in progress
    ret,        \* the call that has just returned, with its result
    script,     \* the calls a scripted caller makes, in order (<<>>: free caller)
    log,        \* the results a scripted caller has taken, in order
    opens,      \* per caller: successful opens of the store in its current call
    closes,     \* per caller: Close calls on a handle in its current call
    rl,         \* the RateLimiter: tokens and lastTime per client, config
    now,        \* time.Now(), in ticks
    sent,       \* requests the chat handler has posted to the AI service
    nosql       \* contents of the store Database/NOSQL: key -> stored bytes

vars ==
    <<store, written, dirs, lock, pc, op, ret, script, log, opens, closes, rl, now, sent,
      nosql>>

\* the state of the HTTP layer
web == <<rl, now, sent>>

\* const DefaultBaseDir, GlobalSchemaPath
DefaultBaseDir == <<"D", "a", "t", "a", "b", "a", "s", "e", "/">>

GlobalSchemaPath == <<"G", "l", "o", "b", "a", "l", "S", "c", "h", "e", "m", "a">>

\* the components every fragmentation function opens the store with
SchemaParams == <<DefaultBaseDir, GlobalSchemaPath, <<"/">>>>

\* the path buildPath resolves them to, and the directories it makes for it
SchemaDir == buildPath({}, SchemaParams, "none").path

SchemaDirs == buildPath({}, SchemaParams, "none").dirs

NoCall == [name |-> "none", keys |-> <<>>, shard |-> Zero]
NoRet ==
    [caller |-> NoCaller, call |-> NoCall, err |-> "nil", key |-> "",
     shard |-> Zero, exists |-> FALSE, path |-> <<>>, handle |-> FALSE]

Call(name, keys, shard) == [name |-> name, keys |-> keys, shard |-> shard]

\* a call by c returning err (key: the key the error text names, if any), with
\* a shard for Get and a flag for Exists
Result(c, call, err, key, shard, exists) ==
    [caller |-> c, call |-> call, err |-> err, key |-> key, shard |-> shard,
     exists |-> exists, path |-> <<>>, handle |-> FALSE]

\* a call of buildPath or CreateLevelDBDatabase by c returning a path, or a
\* handle on the store at that path
PathResult(c, call, err, path, handle) ==
    [caller |-> c, call |-> call, err |-> err, key |-> "", shard |-> Zero,
     exists |-> FALSE, path |-> path, handle |-> handle]

\* ------------------------------------------------------------- the store
\* a Put that leaves nothing but the entry it writes
PutAlone(m, k, v) == [x \in {k} |-> v]

\* ldb.Put(key, value): overwrites
Put(m, k, v) == [x \in DOMAIN m \cup {k} |-> IF x = k THEN v ELSE m[x]]

\* a Delete that removes nothing
DeleteNothing(m, k) == m

\* ldb.Delete(key)
Delete(m, k) == [x \in DOMAIN m \ {k} |-> m[x]]

\* ldb.Get(key) finds a value
Has(m, k) == k \in DOMAIN m

\* how an attempt to open the store can fail for reasons outside the program:
\* os.MkdirAll (only tried while the directory is missing) or leveldb.OpenFile
OpenFaults ==
    {"none", "open"} \cup (IF SchemaDir \in dirs THEN {} ELSE {"mkdir"})

\* leveldb.OpenFile(path, nil) on the file system fs: makes the directory of
\* the store when it is missing, takes the file lock of the store and fails
\* while another handle holds it (held)
OpenFile(fs, held, path, fault) ==
    LET made == IF IsDir(fs, path) THEN [ok |-> TRUE, dirs |-> fs]
                ELSE MkdirAll(fs, path, fault)
    IN  [ok |-> made.ok /\ fault # "open" /\ ~held, dirs |-> made.dirs]

\* CreateLevelDBDatabase(params...): whether it returns a handle, the error,
\* the path of the store and the file system it leaves
CreateLevelDBDatabaseWith(fs, held, params, fault) ==
    IF Len(params) < 2
    THEN [handle |-> FALSE, err |-> "ErrInvalidPath", path |-> <<>>, dirs |-> fs]
    ELSE LET dir == buildPath(fs, params, fault)
             db == OpenFile(dir.dirs, held, dir.path, fault)
         IN  IF dir.err # "nil"
             THEN [handle |-> FALSE, err |-> "ErrDirectoryCreate", path |-> <<>>,
                   dirs |-> dir.dirs]
             ELSE IF ~db.ok
             THEN [handle |-> FALSE, err |-> "ErrDatabaseOpen", path |-> <<>>,
                   dirs |-> db.dirs]
             ELSE [handle |-> TRUE, err |-> "nil", path |-> dir.path, dirs |-> db.dirs]

\* CreateLevelDBDatabase(DefaultBaseDir, GlobalSchemaPath, "/"): buildPath makes
\* the directory when it is missing, leveldb.OpenFile takes the file lock and
\* fails while another handle holds it.  This is what
\* CreateLevelDBDatabaseWith(dirs, lock # NoCaller, SchemaParams, fault) yields.
CreateLevelDBDatabase(fault) ==
    LET mkdirFails == SchemaDir \notin dirs /\ fault = "mkdir"
        openFails == fault = "open" \/ lock # NoCaller
    IN  [ok |-> ~mkdirFails /\ ~openFails,
         dirs |-> IF mkdirFails THEN dirs ELSE dirs \cup SchemaDirs]

\* caller c is at position at and no returned result is waiting to be taken
At(c, at) == ret = NoRet /\ pc[c] = at

\* OpenStore handing the error of CreateLevelDBDatabase on as it is, not
\* wrapped in ErrDatabaseOpen
OpenStoreUnwrapped(c, call, fault, next, failShard) ==
    LET db == CreateLevelDBDatabase(fault)
    IN  /\ dirs' = db.dirs
        /\ IF db.ok
           THEN /\ pc' = [pc EXCEPT ![c] = next]
                /\ op' = [op EXCEPT ![c] = call]
                /\ lock' = c
                /\ opens' = [opens EXCEPT ![c] = @ + 1]
                /\ ret' = NoRet
           ELSE /\ pc' = [pc EXCEPT ![c] = "idle"]
                /\ op' = [op EXCEPT ![c] = NoCall]
                /\ ret' = Result(c, call, "ErrDirectoryCreate", "", failShard, FALSE)
                /\ UNCHANGED <<lock, opens>>
        /\ UNCHANGED <<store, written, script, nosql, web, log, closes>>

\* OpenStore waiting for the file lock: it goes on only once no other handle
\* holds the store
OpenStoreWaiting(c, call, fault, next, failShard) ==
    LET db == CreateLevelDBDatabase(fault)
    IN  /\ lock = NoCaller
        /\ dirs' = db.dirs
        /\ IF db.ok
           THEN /\ pc' = [pc EXCEPT ![c] = next]
                /\ op' = [op EXCEPT ![c] = call]
                /\ lock' = c
                /\ opens' = [opens EXCEPT ![c] = @ + 1]
                /\ ret' = NoRet
           ELSE /\ pc' = [pc EXCEPT ![c] = "idle"]
                /\ op' = [op EXCEPT ![c] = NoCall]
                /\ ret' = Result(c, call, "ErrDatabaseOpen", "", failShard, FALSE)
                /\ UNCHANGED <<lock, opens>>
        /\ UNCHANGED <<store, written, script, nosql, web, log, closes>>

\* the validated part of an operation starts: open the store and hold the
\* handle at position next, or return ErrDatabaseOpen
OpenStore(c, call, fault, next, failShard) ==
    LET db == CreateLevelDBDatabase(fault)
    IN  /\ dirs' = db.dirs
        /\ IF db.ok
           THEN /\ pc' = [pc EXCEPT ![c] = next]
                /\ op' = [op EXCEPT ![c] = call]
                /\ lock' = c
                /\ opens' = [opens EXCEPT ![c] = @ + 1]
                /\ ret' = NoRet
           ELSE /\ pc' = [pc EXCEPT ![c] = "idle"]
                /\ op' = [op EXCEPT ![c] = NoCall]
                /\ ret' = Result(c, call, "ErrDatabaseOpen", "", failShard, FALSE)
                /\ UNCHANGED <<lock, opens>>
        /\ UNCHANGED <<store, written, script, nosql, web, log, closes>>

\* return before the store is opened
Reject(c, call, err, failShard) ==
    /\ ret' = Result(c, call, err, "", failShard, FALSE)
    /\ UNCHANGED <<store, written, dirs, lock, pc, op, script, nosql, web, log, opens, closes>>

\* a return that leaves the handle open (no deferred Close)
ReturnLeak(c, err, key, shard, exists) ==
    /\ pc' = [pc EXCEPT ![c] = "idle"]
    /\ op' = [op EXCEPT ![c] = NoCall]
    /\ ret' = Result(c, op[c], err, key, shard, exists)
    /\ UNCHANGED <<dirs, script, nosql, web, log, opens, lock, closes>>

\* return with the handle open: the deferred ldb.Close() releases the lock
Return(c, err, key, shard, exists) ==
    /\ pc' = [pc EXCEPT ![c] = "idle"]
    /\ op' = [op EXCEPT ![c] = NoCall]
    /\ lock' = NoCaller
    /\ closes' = [closes EXCEPT ![c] = @ + 1]
    /\ ret' = Result(c, op[c], err, key, shard, exists)
    /\ UNCHANGED <<dirs, script, nosql, web, log, opens>>

\* the caller takes the returned result and goes on: its call is over, and
\* so is the count of the opens and closes the call made
Resume ==
    /\ ret # NoRet
    /\ ret' = NoRet
    /\ opens' = [opens EXCEPT ![ret.caller] = 0]
    /\ closes' = [closes EXCEPT ![ret.caller] = 0]
    /\ UNCHANGED <<store, written, dirs, lock, pc, op, script, nosql, web, log>>

\* ------------------------------------------------------- FragmentationAdd
\* AddLoop as an insert: a key that is present keeps its value
RECURSIVE AddLoopInsertOnly(_, _, _, _, _)
AddLoopInsertOnly(m, keys, i, v, failAt) ==
    IF i > Len(keys) THEN [m |-> m, err |-> "nil", key |-> ""]
    ELSE IF keys[i] = "" THEN AddLoopInsertOnly(m, keys, i + 1, v, failAt)
    ELSE IF i = failAt THEN [m |-> m, err |-> "ErrFragmentationWrite", key |-> keys[i]]
    ELSE IF Has(m, keys[i]) THEN AddLoopInsertOnly(m, keys, i + 1, v, failAt)
    ELSE AddLoopInsertOnly(Put(m, keys[i], v), keys, i + 1, v, failAt)

\* AddLoop with break for continue: the first empty key ends the batch
RECURSIVE AddLoopStopAtEmpty(_, _, _, _, _)
AddLoopStopAtEmpty(m, keys, i, v, failAt) ==
    IF i > Len(keys) \/ keys[i] = "" THEN [m |-> m, err |-> "nil", key |-> ""]
    ELSE IF i = failAt THEN [m |-> m, err |-> "ErrFragmentationWrite", key |-> keys[i]]
    ELSE AddLoopStopAtEmpty(Put(m, keys[i], v), keys, i + 1, v, failAt)

\* AddLoop that remembers the first error and still writes the keys after it
RECURSIVE AddLoopKeepGoing(_, _, _, _, _)
AddLoopKeepGoing(m, keys, i, v, failAt) ==
    IF i > Len(keys) THEN [m |-> m, err |-> "nil", key |-> ""]
    ELSE IF keys[i] = "" THEN AddLoopKeepGoing(m, keys, i + 1, v, failAt)
    ELSE IF i = failAt
    THEN [m |-> AddLoopKeepGoing(m, keys, i + 1, v, failAt).m,
          err |-> "ErrFragmentationWrite", key |-> keys[i]]
    ELSE AddLoopKeepGoing(Put(m, keys[i], v), keys, i + 1, v, failAt)

\* the range loop over keys: skip "", Put the others, stop at the first Put
\* that fails (failAt is the position of the failing Put, 0 for none)
RECURSIVE AddLoop(_, _, _, _, _)
AddLoop(m, keys, i, v, failAt) ==
    IF i > Len(keys) THEN [m |-> m, err |-> "nil", key |-> ""]
    ELSE IF keys[i] = "" THEN AddLoop(m, keys, i + 1, v, failAt)
    ELSE IF i = failAt THEN [m |-> m, err |-> "ErrFragmentationWrite", key |-> keys[i]]
    ELSE AddLoop(Put(m, keys[i], v), keys, i + 1, v, failAt)

\* FragmentationAdd without the len(keys) == 0 check
FragmentationAddUnvalidated(c, shards, keyLists, faults) ==
    /\ At(c, "idle")
    /\ \E shard \in shards, keys \in keyLists, fault \in faults :
          OpenStore(c, Call("Add", keys, shard), fault, "add", Zero)

\* a call FragmentationAdd(shard, keys...) with inputs from the given sets
FragmentationAdd(c, shards, keyLists, faults) ==
    /\ At(c, "idle")
    /\ \E shard \in shards, keys \in keyLists, fault \in faults :
          IF Len(keys) = 0
          THEN Reject(c, Call("Add", keys, shard), "ErrEmptyKey", Zero)
          ELSE OpenStore(c, Call("Add", keys, shard), fault, "add", Zero)

\* the loop, with the failing Put (if any) drawn from failAts
FragmentationAddWrite(c, failAts) ==
    /\ At(c, "add")
    /\ \E failAt \in failAts :
          LET r == AddLoop(store, op[c].keys, 1, Sprintf(op[c].shard), failAt)
          IN  /\ store' = r.m
              /\ written' = AddLoop(written, op[c].keys, 1, op[c].shard, failAt).m
              /\ Return(c, r.err, r.key, Zero, FALSE)

\* ---------------------------------------------------- FragmentationRemove
FragmentationRemove(c, keys, faults) ==
    /\ At(c, "idle")
    /\ \E key \in keys, fault \in faults :
          IF key = ""
          THEN Reject(c, Call("Remove", <<key>>, Zero), "ErrEmptyKey", Zero)
          ELSE OpenStore(c, Call("Remove", <<key>>, Zero), fault, "remove", Zero)

\* FragmentationRemove as an idempotent delete: an absent key is no error
FragmentationRemoveIdempotent(c, writeFaults) ==
    /\ At(c, "remove")
    /\ \E deleteFails \in writeFaults :
          IF deleteFails
          THEN /\ Return(c, "ErrFragmentationWrite", "", Zero, FALSE)
               /\ UNCHANGED <<store, written>>
          ELSE /\ store' = Delete(store, op[c].keys[1])
               /\ written' = Delete(written, op[c].keys[1])
               /\ Return(c, "nil", "", Zero, FALSE)

\* the existence check and the Delete under one handle
FragmentationRemoveDelete(c, writeFaults) ==
    /\ At(c, "remove")
    /\ \E deleteFails \in writeFaults :
          LET key == op[c].keys[1]
          IN  IF ~Has(store, key)
              THEN /\ Return(c, "ErrShardNotFound", "", Zero, FALSE)
                   /\ UNCHANGED <<store, written>>
              ELSE IF deleteFails
              THEN /\ Return(c, "ErrFragmentationWrite", "", Zero, FALSE)
                   /\ UNCHANGED <<store, written>>
              ELSE /\ store' = Delete(store, key)
                   /\ written' = Delete(written, key)
                   /\ Return(c, "nil", "", Zero, FALSE)

\* ------------------------------------------------------- FragmentationGet
\* FragmentationGet without the rowID == "" check
FragmentationGetUnvalidated(c, keys, faults) ==
    /\ At(c, "idle")
    /\ \E rowID \in keys, fault \in faults :
          OpenStore(c, Call("Get", <<rowID>>, Zero), fault, "get", MinusOne)

FragmentationGet(c, keys, faults) ==
    /\ At(c, "idle")
    /\ \E rowID \in keys, fault \in faults :
          IF rowID = ""
          THEN Reject(c, Call("Get", <<rowID>>, Zero), "ErrEmptyKey", MinusOne)
          ELSE OpenStore(c, Call("Get", <<rowID>>, Zero), fault, "get", MinusOne)

\* FragmentationGet returning the zero value of int64 next to its errors
FragmentationGetReadZero(c) ==
    /\ At(c, "get")
    /\ LET rowID == op[c].keys[1]
       IN  IF ~Has(store, rowID)
           THEN Return(c, "ErrShardNotFound", "", Zero, FALSE)
           ELSE IF ParseInt(store[rowID]).err # "nil"
           THEN Return(c, "ErrShardConversion", "", Zero, FALSE)
           ELSE Return(c, "nil", "", ParseInt(store[rowID]).n, FALSE)
    /\ UNCHANGED <<store, written>>

\* FragmentationGet dropping an entry it cannot parse
FragmentationGetReadRepairing(c) ==
    /\ At(c, "get")
    /\ LET rowID == op[c].keys[1]
       IN  IF ~Has(store, rowID)
           THEN /\ Return(c, "ErrShardNotFound", "", MinusOne, FALSE)
                /\ UNCHANGED <<store, written>>
           ELSE IF ParseInt(store[rowID]).err # "nil"
           THEN /\ Return(c, "ErrShardConversion", "", MinusOne, FALSE)
                /\ store' = Delete(store, rowID)
                /\ UNCHANGED written
           ELSE /\ Return(c, "nil", "", ParseInt(store[rowID]).n, FALSE)
                /\ UNCHANGED <<store, written>>

\* FragmentationGet failing on any entry of the store it cannot parse
FragmentationGetReadScanning(c) ==
    /\ At(c, "get")
    /\ LET rowID == op[c].keys[1]
       IN  IF ~Has(store, rowID)
           THEN Return(c, "ErrShardNotFound", "", MinusOne, FALSE)
           ELSE IF \E k \in DOMAIN store : ParseInt(store[k]).err # "nil"
           THEN Return(c, "ErrShardConversion", "", MinusOne, FALSE)
           ELSE Return(c, "nil", "", ParseInt(store[rowID]).n, FALSE)
    /\ UNCHANGED <<store, written>>

FragmentationGetRead(c) ==
    /\ At(c, "get")
    /\ LET rowID == op[c].keys[1]
       IN  IF ~Has(store, rowID)
           THEN Return(c, "ErrShardNotFound", "", MinusOne, FALSE)
           ELSE IF ParseInt(store[rowID]).err # "nil"
           THEN Return(c, "ErrShardConversion", "", MinusOne, FALSE)
           ELSE Return(c, "nil", "", ParseInt(store[rowID]).n, FALSE)
    /\ UNCHANGED <<store, written>>

\* ---------------------------------------------------- FragmentationExists
FragmentationExists(c, keys, faults) ==
    /\ At(c, "idle")
    /\ \E key \in keys, fault \in faults :
          IF key = ""
          THEN Reject(c, Call("Exists", <<key>>, Zero), "ErrEmptyKey", Zero)
          ELSE OpenStore(c, Call("Exists", <<key>>, Zero), fault, "exists", Zero)

\* FragmentationExists treating a missing key as FragmentationGet does
FragmentationExistsReadStrict(c) ==
    /\ At(c, "exists")
    /\ IF Has(store, op[c].keys[1])
       THEN Return(c, "nil", "", Zero, TRUE)
       ELSE Return(c, "ErrShardNotFound", "", Zero, FALSE)
    /\ UNCHANGED <<store, written>>

FragmentationExistsRead(c) ==
    /\ At(c, "exists")
    /\ Return(c, "nil", "", Zero, Has(store, op[c].keys[1]))
    /\ UNCHANGED <<store, written>>

\* ---------------------------------------------------- FragmentationUpdate
\* validation, then the call of FragmentationExists(key) opens the store
FragmentationUpdate(c, keys, shards, faults) ==
    /\ At(c, "idle")
    /\ \E key \in keys, newShard \in shards, fault \in faults :
          IF key = ""
          THEN Reject(c, Call("Update", <<key>>, newShard), "ErrEmptyKey", Zero)
          ELSE OpenStore(c, Call("Update", <<key>>, newShard), fault, "update_exists", Zero)

\* FragmentationUpdate without the existence check: the update goes on regardless
FragmentationUpdateUnchecked(c) ==
    /\ At(c, "update_exists")
    /\ pc' = [pc EXCEPT ![c] = "update_open"]
    /\ lock' = NoCaller
    /\ closes' = [closes EXCEPT ![c] = @ + 1]
    /\ ret' = NoRet
    /\ UNCHANGED <<store, written, op, dirs, script, nosql, web, log, opens>>

\* FragmentationExists reads and closes its handle; an absent key ends the update
FragmentationUpdateExists(c) ==
    /\ At(c, "update_exists")
    /\ IF Has(store, op[c].keys[1])
       THEN /\ pc' = [pc EXCEPT ![c] = "update_open"]
            /\ lock' = NoCaller
            /\ closes' = [closes EXCEPT ![c] = @ + 1]
            /\ ret' = NoRet
            /\ UNCHANGED <<op, dirs, script, nosql, web, log, opens>>
       ELSE Return(c, "ErrShardNotFound", op[c].keys[1], Zero, FALSE)
    /\ UNCHANGED <<store, written>>

\* the second CreateLevelDBDatabase of the update
FragmentationUpdateOpen(c, faults) ==
    /\ At(c, "update_open")
    /\ \E fault \in faults : OpenStore(c, op[c], fault, "update_put", Zero)

\* an update that returns without the Put, yet reports success
FragmentationUpdatePutLost(c, writeFaults) ==
    /\ At(c, "update_put")
    /\ \E putFails \in writeFaults :
          /\ Return(c, IF putFails THEN "ErrFragmentationWrite" ELSE "nil", "", Zero, FALSE)
          /\ UNCHANGED <<store, written>>

FragmentationUpdatePut(c, writeFaults) ==
    /\ At(c, "update_put")
    /\ \E putFails \in writeFaults :
          IF putFails
          THEN /\ Return(c, "ErrFragmentationWrite", "", Zero, FALSE)
               /\ UNCHANGED <<store, written>>
          ELSE /\ store' = Put(store, op[c].keys[1], Sprintf(op[c].shard))
               /\ written' = Put(written, op[c].keys[1], op[c].shard)
               /\ Return(c, "nil", "", Zero, FALSE)

\* ------------------------------------------------------------- rate limiter
\* time.Time and time.Duration are counted in ticks
TicksPerSecond == 2

\* int(elapsed.Seconds())
Seconds(elapsed) == elapsed \div TicksPerSecond

\* the configuration of TestRateLimiter
TestRateLimiterConfig == [RequestsPerSecond |-> 2, BurstSize |-> 3]

\* NewRateLimiter(config)
NewRateLimiter(config) == [tokens |-> <<>>, lastTime |-> <<>>, config |-> config]

\* Allow with a full bucket left after the first request of a client
AllowFullBucket(l, clientIP, t) ==
    IF ~Has(l.lastTime, clientIP)
    THEN [rl |-> [l EXCEPT !.tokens = Put(@, clientIP, l.config.BurstSize),
                           !.lastTime = Put(@, clientIP, t)],
          ok |-> TRUE]
    ELSE LET elapsed == t - l.lastTime[clientIP]
             tokensToAdd == Seconds(elapsed) * l.config.RequestsPerSecond
             sum == l.tokens[clientIP] + tokensToAdd
             currentTokens == IF sum > l.config.BurstSize THEN l.config.BurstSize ELSE sum
         IN  IF currentTokens <= 0 THEN [rl |-> l, ok |-> FALSE]
             ELSE [rl |-> [l EXCEPT !.tokens[clientIP] = currentTokens - 1,
                                    !.lastTime[clientIP] = t],
                   ok |-> TRUE]

\* Allow that notes the time of a denied request too
AllowTouching(l, clientIP, t) ==
    IF ~Has(l.lastTime, clientIP)
    THEN [rl |-> [l EXCEPT !.tokens = Put(@, clientIP, l.config.BurstSize - 1),
                           !.lastTime = Put(@, clientIP, t)],
          ok |-> TRUE]
    ELSE LET elapsed == t - l.lastTime[clientIP]
             tokensToAdd == Seconds(elapsed) * l.config.RequestsPerSecond
             sum == l.tokens[clientIP] + tokensToAdd
             currentTokens == IF sum > l.config.BurstSize THEN l.config.BurstSize ELSE sum
         IN  IF currentTokens <= 0
             THEN [rl |-> [l EXCEPT !.lastTime[clientIP] = t], ok |-> FALSE]
             ELSE [rl |-> [l EXCEPT !.tokens[clientIP] = currentTokens - 1,
                                    !.lastTime[clientIP] = t],
                   ok |-> TRUE]

\* rl.Allow(clientIP) at time t, under rl.mu: the limiter it leaves and its
\* answer
Allow(l, clientIP, t) ==
    IF ~Has(l.lastTime, clientIP)
    THEN [rl |-> [l EXCEPT !.tokens = Put(@, clientIP, l.config.BurstSize - 1),
                           !.lastTime = Put(@, clientIP, t)],
          ok |-> TRUE]
    ELSE LET elapsed == t - l.lastTime[clientIP]
             tokensToAdd == Seconds(elapsed) * l.config.RequestsPerSecond
             sum == l.tokens[clientIP] + tokensToAdd
             currentTokens == IF sum > l.config.BurstSize THEN l.config.BurstSize ELSE sum
         IN  IF currentTokens <= 0 THEN [rl |-> l, ok |-> FALSE]
             ELSE [rl |-> [l EXCEPT !.tokens[clientIP] = currentTokens - 1,
                                    !.lastTime[clientIP] = t],
                   ok |-> TRUE]

\* --------------------------------------------------------- specifications
Init ==
    /\ store = <<>>
    /\ written = <<>>
    /\ dirs = {}
    /\ lock = NoCaller
    /\ pc = [c \in Callers |-> "idle"]
    /\ op = [c \in Callers |-> NoCall]
    /\ ret = NoRet
    /\ script = <<>>
    /\ rl = NewRateLimiter(TestRateLimiterConfig)
    /\ now = 0
    /\ sent = 0
    /\ nosql = <<>>
    /\ log = <<>>
    /\ opens = [c \in Callers |-> 0]
    /\ closes = [c \in Callers |-> 0]

\* one caller, any operation on any input, any fault
Next ==
    \/ Resume
    \/ \E c \in SeqCallers :
        \/ FragmentationAdd(c, Shards, KeyLists, OpenFaults)
        \/ FragmentationAddWrite(c, 0..MaxKeys)
        \/ FragmentationRemove(c, Keys, OpenFaults)
        \/ FragmentationRemoveDelete(c, BOOLEAN)
        \/ FragmentationGet(c, Keys, OpenFaults)
        \/ FragmentationGetRead(c)
        \/ FragmentationExists(c, Keys, OpenFaults)
        \/ FragmentationExistsRead(c)
        \/ FragmentationUpdate(c, Keys, Shards, OpenFaults)
        \/ FragmentationUpdateExists(c)
        \/ FragmentationUpdateOpen(c, OpenFaults)
        \/ FragmentationUpdatePut(c, BOOLEAN)

Spec == Init /\ [][Next]_vars

\* several callers whose operations interleave at every open and close
NextConc ==
    \/ Resume
    \/ \E c \in Callers :
        \/ FragmentationAdd(c, ShardsConc, KeyListsConc, OpenFaults)
        \/ FragmentationAddWrite(c, 0..MaxKeysConc)
        \/ FragmentationRemove(c, KeysConc, OpenFaults)
        \/ FragmentationRemoveDelete(c, BOOLEAN)
        \/ FragmentationGet(c, KeysConc, OpenFaults)
        \/ FragmentationGetRead(c)
        \/ FragmentationExists(c, KeysConc, OpenFaults)
        \/ FragmentationExistsRead(c)
        \/ FragmentationUpdate(c, KeysConc, ShardsConc, OpenFaults)
        \/ FragmentationUpdateExists(c)
        \/ FragmentationUpdateOpen(c, OpenFaults)
        \/ FragmentationUpdatePut(c, BOOLEAN)

SpecConc == Init /\ [][NextConc]_vars

\* ------------------------------------------------------- scripted callers
\* One caller runs a fixed sequence of calls, one after the other, on a store
\* that works (no open, write or delete fault), and keeps every result.
NonEmptyKeys == Keys \ {""}

UpsertScript(k, s1, s2) ==
    <<Call("Add", <<k>>, s1), Call("Add", <<k>>, s2), Call("Get", <<k>>, Zero)>>

LifecycleScript(k, s, t) ==
    <<Call("Add", <<k>>, s), Call("Get", <<k>>, Zero), Call("Update", <<k>>, t),
      Call("Get", <<k>>, Zero), Call("Remove", <<k>>, Zero), Call("Exists", <<k>>, Zero)>>

RemoveScript(k, s) ==
    <<Call("Add", <<k>>, s), Call("Remove", <<k>>, Zero),
      Call("Exists", <<k>>, Zero), Call("Get", <<k>>, Zero)>>

Scripts ==
    {UpsertScript(k, s1, s2) : k \in NonEmptyKeys, s1 \in Shards, s2 \in Shards}
        \cup {LifecycleScript(k, s, t) : k \in NonEmptyKeys, s \in Shards, t \in Shards}
        \cup {RemoveScript(k, s) : k \in NonEmptyKeys, s \in Shards}

\* directory contents a script may start from: what earlier Adds have left
StartShards == {Seven, MinInt64}

StartDirectories == UNION {[d -> StartShards] : d \in SUBSET NonEmptyKeys}

InitScript ==
    /\ written \in StartDirectories
    /\ store = [k \in DOMAIN written |-> Sprintf(written[k])]
    /\ dirs = IF DOMAIN written = {} THEN {} ELSE SchemaDirs
    /\ lock = NoCaller
    /\ pc = [c \in Callers |-> "idle"]
    /\ op = [c \in Callers |-> NoCall]
    /\ ret = NoRet
    /\ script \in Scripts
    /\ rl = NewRateLimiter(TestRateLimiterConfig)
    /\ now = 0
    /\ sent = 0
    /\ nosql = <<>>
    /\ log = <<>>
    /\ opens = [c \in Callers |-> 0]
    /\ closes = [c \in Callers |-> 0]

\* the call the script makes next
NextCall == script[Len(log) + 1]

NextCallIs(name) == Len(log) < Len(script) /\ NextCall.name = name

NoFault == {"none"}

\* the scripted caller takes the returned result and keeps it
ResumeLogged ==
    /\ ret # NoRet
    /\ ret' = NoRet
    /\ log' = Append(log, ret)
    /\ opens' = [opens EXCEPT ![ret.caller] = 0]
    /\ closes' = [closes EXCEPT ![ret.caller] = 0]
    /\ UNCHANGED <<store, written, dirs, lock, pc, op, script, nosql, web>>

NextScript ==
    \/ ResumeLogged
    \/ \E c \in SeqCallers :
        \/ NextCallIs("Add") /\ FragmentationAdd(c, {NextCall.shard}, {NextCall.keys}, NoFault)
        \/ FragmentationAddWrite(c, {0})
        \/ NextCallIs("Remove") /\ FragmentationRemove(c, {NextCall.keys[1]}, NoFault)
        \/ FragmentationRemoveDelete(c, {FALSE})
        \/ NextCallIs("Get") /\ FragmentationGet(c, {NextCall.keys[1]}, NoFault)
        \/ FragmentationGetRead(c)
        \/ NextCallIs("Exists") /\ FragmentationExists(c, {NextCall.keys[1]}, NoFault)
        \/ FragmentationExistsRead(c)
        \/ NextCallIs("Update")
              /\ FragmentationUpdate(c, {NextCall.keys[1]}, {NextCall.shard}, NoFault)
        \/ FragmentationUpdateExists(c)
        \/ FragmentationUpdateOpen(c, NoFault)
        \/ FragmentationUpdatePut(c, {FALSE})

SpecScript == InitScript /\ [][NextScript]_vars

\* ------------------------------------------------- a store found on disk
\* The directory as a process may find it when it starts: next to the values
\* FragmentationAdd writes, values some other writer of the store has left
\* (empty, a number with trailing bytes, a number with a plus sign, a number
\* one past the largest int64).
StoredValues ==
    {Sprintf(Seven), <<>>, <<"7", "x">>, <<"+", "7">>,
     <<"9", "2", "2", "3", "3", "7", "2", "0", "3", "6", "8", "5", "4", "7", "7", "5",
       "8", "0", "8">>}

InitStored ==
    /\ store \in UNION {[d -> StoredValues] : d \in SUBSET NonEmptyKeys}
    /\ written = [k \in {x \in DOMAIN store : ParseInt(store[x]).err = "nil"} |->
                     ParseInt(store[k]).n]
    /\ dirs = IF DOMAIN store = {} THEN {} ELSE SchemaDirs
    /\ lock = NoCaller
    /\ pc = [c \in Callers |-> "idle"]
    /\ op = [c \in Callers |-> NoCall]
    /\ ret = NoRet
    /\ script = <<>>
    /\ rl = NewRateLimiter(TestRateLimiterConfig)
    /\ now = 0
    /\ sent = 0
    /\ nosql = <<>>
    /\ log = <<>>
    /\ opens = [c \in Callers |-> 0]
    /\ closes = [c \in Callers |-> 0]

\* one caller, any operation, any fault, on a store found on disk
SpecStored == InitStored /\ [][Next]_vars

\* -------------------------------------------------- reads between writes
\* One caller reads key k again and again, on a store found on disk that
\* works, with writes to a key w (k itself or another key) in between.
ReadScript(k, w, s) ==
    <<Call("Get", <<k>>, Zero), Call("Exists", <<k>>, Zero), Call("Get", <<k>>, Zero),
      Call("Add", <<w>>, s), Call("Get", <<k>>, Zero), Call("Exists", <<w>>, Zero),
      Call("Update", <<w>>, Zero), Call("Get", <<k>>, Zero), Call("Get", <<k>>, Zero),
      Call("Remove", <<w>>, Zero), Call("Get", <<k>>, Zero), Call("Exists", <<k>>, Zero),
      Call("Get", <<k>>, Zero)>>

ReadScripts == {ReadScript(k, w, s) : k \in NonEmptyKeys, w \in NonEmptyKeys, s \in StartShards}

InitReads ==
    /\ store \in UNION {[d -> StoredValues] : d \in SUBSET NonEmptyKeys}
    /\ written = [k \in {x \in DOMAIN store : ParseInt(store[x]).err = "nil"} |->
                     ParseInt(store[k]).n]
    /\ dirs = IF DOMAIN store = {} THEN {} ELSE SchemaDirs
    /\ lock = NoCaller
    /\ pc = [c \in Callers |-> "idle"]
    /\ op = [c \in Callers |-> NoCall]
    /\ ret = NoRet
    /\ script \in ReadScripts
    /\ rl = NewRateLimiter(TestRateLimiterConfig)
    /\ now = 0
    /\ sent = 0
    /\ nosql = <<>>
    /\ log = <<>>
    /\ opens = [c \in Callers |-> 0]
    /\ closes = [c \in Callers |-> 0]

SpecReads == InitReads /\ [][NextScript]_vars

\* ------------------------------------------- concurrent adds, own keys
\* Every caller adds keys no other caller touches, on a store without faults:
\* the only way an open can fail is that another caller holds the store.
AddKeys == <<"a", "b", "c", "d", "e", "f", "g", "h">>

OwnKeys(c) == {AddKeys[2 * c - 1], AddKeys[2 * c]}

OwnKeyLists(c) == UNION {[1..n -> OwnKeys(c)] : n \in 1..MaxKeysConc}

NextAdds ==
    \/ Resume
    \/ \E c \in Callers :
        \/ FragmentationAdd(c, ShardsConc, OwnKeyLists(c), NoFault)
        \/ FragmentationAddWrite(c, {0})

SpecAdds == Init /\ [][NextAdds]_vars

\* ---------------------------------------- concurrent updates of one key
\* The directory holds the key a, and every caller updates it, on a store
\* without faults: the only way an open can fail is that another caller
\* holds the store.
UpdatedKey == "a"

InitUpdates ==
    /\ written = [k \in {UpdatedKey} |-> Seven]
    /\ store = [k \in DOMAIN written |-> Sprintf(written[k])]
    /\ dirs = SchemaDirs
    /\ lock = NoCaller
    /\ pc = [c \in Callers |-> "idle"]
    /\ op = [c \in Callers |-> NoCall]
    /\ ret = NoRet
    /\ script = <<>>
    /\ log = <<>>
    /\ opens = [c \in Callers |-> 0]
    /\ closes = [c \in Callers |-> 0]
    /\ rl = NewRateLimiter(TestRateLimiterConfig)
    /\ now = 0
    /\ sent = 0
    /\ nosql = <<>>

NextUpdates ==
    \/ Resume
    \/ \E c \in Callers :
        \/ FragmentationUpdate(c, {UpdatedKey}, ShardsConc, NoFault)
        \/ FragmentationUpdateExists(c)
        \/ FragmentationUpdateOpen(c, NoFault)
        \/ FragmentationUpdatePut(c, {FALSE})

SpecUpdates == InitUpdates /\ [][NextUpdates]_vars

\* ------------------------------------------------- callers that run on
\* Concurrent callers add and update one key, with every fault of the store.
\* The steps of a call in progress are what the goroutine of caller c does
\* next.
CallerStep(c) ==
    \/ FragmentationAddWrite(c, 0..MaxKeysConc)
    \/ FragmentationUpdateExists(c)
    \/ FragmentationUpdateOpen(c, OpenFaults)
    \/ FragmentationUpdatePut(c, BOOLEAN)

NextBusy ==
    \/ Resume
    \/ \E c \in Callers :
        \/ FragmentationAdd(c, {Seven}, {<<UpdatedKey>>}, OpenFaults)
        \/ FragmentationUpdate(c, {UpdatedKey}, {Zero}, OpenFaults)
        \/ CallerStep(c)

\* The Go scheduler runs every goroutine: a caller inside a call takes its
\* next step, and a returned result is taken.  The step of a caller is held
\* back only for the moment in which another caller's result is taken, hence
\* strong fairness.
SpecBusy ==
    /\ Init
    /\ [][NextBusy]_vars
    /\ WF_vars(Resume)
    /\ \A c \in Callers : SF_vars(CallerStep(c))

\* ---------------------------------------------------------- path resolution
\* One caller calls buildPath and CreateLevelDBDatabase with any components
\* and closes each handle it gets before its next call.
BaseDirs == {<<>>, <<" ">>, <<"a">>, <<" ", "a", " ">>}

Namespaces == {<<>>, <<" ">>, <<"b">>, <<" ", "b", " ">>}

Leaves == {<<>>, <<"c">>, <<"/">>}

\* the components a call may pass at position i
ComponentsAt(i) == IF i = 1 THEN BaseDirs ELSE IF i = 2 THEN Namespaces ELSE Leaves

ComponentLists ==
    UNION {{params \in [1..n -> BaseDirs \cup Namespaces \cup Leaves] :
               \A i \in 1..n : params[i] \in ComponentsAt(i)} : n \in 0..MaxComponents}

PathFaults == {"none", "mkdir", "mkdirChild", "open"}

\* a call buildPath(params...)
BuildPath(c, lists, faults) ==
    /\ At(c, "idle")
    /\ \E params \in lists, fault \in faults :
          LET r == buildPath(dirs, params, fault)
          IN  /\ dirs' = r.dirs
              /\ ret' = PathResult(c, Call("buildPath", params, Zero), r.err, r.path, FALSE)
    /\ UNCHANGED <<store, written, lock, pc, op, script, nosql, web, log, opens, closes>>

\* a call CreateLevelDBDatabase(params...)
OpenDatabase(c, lists, faults) ==
    /\ At(c, "idle")
    /\ \E params \in lists, fault \in faults :
          LET db == CreateLevelDBDatabaseWith(dirs, lock # NoCaller, params, fault)
          IN  /\ dirs' = db.dirs
              /\ lock' = IF db.handle THEN c ELSE lock
              /\ opens' = [opens EXCEPT ![c] = IF db.handle THEN @ + 1 ELSE @]
              /\ ret' = PathResult(c, Call("CreateLevelDBDatabase", params, Zero),
                                   db.err, db.path, db.handle)
    /\ UNCHANGED <<store, written, pc, op, script, nosql, web, log, closes>>

\* the caller takes the result and closes the handle, if it got one
ResumeClose ==
    /\ ret # NoRet
    /\ ret' = NoRet
    /\ lock' = IF ret.handle THEN NoCaller ELSE lock
    /\ opens' = [opens EXCEPT ![ret.caller] = 0]
    /\ closes' = [closes EXCEPT ![ret.caller] = 0]
    /\ UNCHANGED <<store, written, dirs, pc, op, script, nosql, web, log>>

NextPath ==
    \/ ResumeClose
    \/ \E c \in SeqCallers :
        \/ BuildPath(c, ComponentLists, PathFaults)
        \/ OpenDatabase(c, ComponentLists, PathFaults)

SpecPath == Init /\ [][NextPath]_vars

\* ------------------------------------------------------------ path cleaning
\* One caller calls CleanPath with any short path over these characters, and
\* with the two paths of its documentation.
PathChars == {"a", "b", "/", "."}

PathStrings ==
    UNION {[1..n -> PathChars] : n \in 0..MaxPathLen}
        \cup {<<"/", "/", "a", "/", "/", "b", "/", "/">>, <<"a", "/", "b">>}

\* a call CleanPath(p)
CleanPathCall(c, paths) ==
    /\ At(c, "idle")
    /\ \E p \in paths :
          ret' = PathResult(c, Call("CleanPath", <<p>>, Zero), "nil", CleanPath(p), FALSE)
    /\ UNCHANGED <<store, written, dirs, lock, pc, op, script, nosql, web, log, opens, closes>>

NextClean ==
    \/ ResumeClose
    \/ \E c \in SeqCallers : CleanPathCall(c, PathStrings)

SpecClean == Init /\ [][NextClean]_vars

\* ------------------------------------------------------------ record stores
\* internal/model keeps users and chat histories in the store
\* Database/Common/Shard_0.sqlite, each record as the protobuf encoding of its
\* fields.  An encoding is the sequence of its <<field, value>> entries, in
\* field order; a field that holds its default value has no entry.
CommonParams ==
    <<DefaultBaseDir, <<"C", "o", "m", "m", "o", "n">>,
      <<"S", "h", "a", "r", "d", "_", "0", ".", "s", "q", "l", "i", "t", "e">>>>

\* the directory buildPath makes for the store and the directories an open
\* of the store leaves
CommonDir == buildPath({}, <<CommonParams[1], CommonParams[2]>>, "none").path

CommonDirs == CreateLevelDBDatabaseWith({}, FALSE, CommonParams, "none").dirs

\* how an attempt to open the record store can fail for reasons outside the
\* program
RecordFaults ==
    {"none", "open"} \cup (IF CommonDir \in dirs THEN {} ELSE {"mkdir"})

\* CreateLevelDBDatabase("Database/", "Common", "Shard_0.sqlite"): this is
\* what CreateLevelDBDatabaseWith(dirs, lock # NoCaller, CommonParams, fault)
\* yields
CreateCommonDatabase(fault) ==
    LET mkdirFails == CommonDir \notin dirs /\ fault = "mkdir"
        openFails == fault = "open" \/ lock # NoCaller
    IN  [ok |-> ~mkdirFails /\ ~openFails,
         dirs |-> IF mkdirFails THEN dirs ELSE dirs \cup CommonDirs]

\* a string that holds a byte sequence that is not valid UTF-8
InvalidUTF8 == "<ff>"

\* the value of field in the entries of an encoding: the last entry of the
\* field, or else what the field held before
FieldOr(bytes, field, before) ==
    LET at == {i \in 1..Len(bytes) : bytes[i][1] = field}
    IN  IF at = {} THEN before ELSE bytes[Last(at)][2]

\* an encoding that does not parse: it ends inside an entry
Truncated(bytes) == \E i \in 1..Len(bytes) : Len(bytes[i]) < 2

\* the entry of a field, none when the field holds its default value
Entry(field, value, default) ==
    IF value = default THEN <<>> ELSE <<<<field, value>>>>

\* a User, reduced to an identifier, one more string and one int64
NoUser == [PersonId |-> "", Profile |-> "", AccountTime |-> 0]

\* proto.Marshal(user): a string that is not valid UTF-8 cannot be encoded
MarshalUser(u) ==
    [err |-> InvalidUTF8 \in {u.PersonId, u.Profile},
     bytes |-> Entry("PersonId", u.PersonId, "")
                   \o Entry("Profile", u.Profile, "")
                   \o Entry("AccountTime", u.AccountTime, 0)]

\* proto.Unmarshal that merges the entries into the fields of the receiver
UnmarshalUserMerge(bytes, into) ==
    [err |-> Truncated(bytes),
     user |-> [PersonId |-> FieldOr(bytes, "PersonId", into.PersonId),
               Profile |-> FieldOr(bytes, "Profile", into.Profile),
               AccountTime |-> FieldOr(bytes, "AccountTime", into.AccountTime)]]

\* proto.Unmarshal(data, user): the receiver is reset, then every entry sets
\* its field
UnmarshalUser(bytes, into) ==
    [err |-> Truncated(bytes),
     user |-> [PersonId |-> FieldOr(bytes, "PersonId", NoUser.PersonId),
               Profile |-> FieldOr(bytes, "Profile", NoUser.Profile),
               AccountTime |-> FieldOr(bytes, "AccountTime", NoUser.AccountTime)]]

\* a call on a record: its name, the key it names and its receiver
RecordCall(name, key, recv) ==
    [name |-> name, keys |-> <<key>>, shard |-> Zero, recv |-> recv]

\* a call on a record by c returning err, with a flag for UserExists and the
\* receiver as the call leaves it
RecordResult(c, call, err, exists, value) ==
    [caller |-> c, call |-> call, err |-> err, key |-> "", shard |-> Zero,
     exists |-> exists, path |-> <<>>, handle |-> FALSE, value |-> value]

\* open the record store and hold the handle at position next, or return
\* ErrDatabaseOpen
OpenRecords(c, call, fault, next) ==
    LET db == CreateCommonDatabase(fault)
    IN  /\ dirs' = db.dirs
        /\ IF db.ok
           THEN /\ pc' = [pc EXCEPT ![c] = next]
                /\ op' = [op EXCEPT ![c] = call]
                /\ lock' = c
                /\ opens' = [opens EXCEPT ![c] = @ + 1]
                /\ ret' = NoRet
           ELSE /\ pc' = [pc EXCEPT ![c] = "idle"]
                /\ op' = [op EXCEPT ![c] = NoCall]
                /\ ret' = RecordResult(c, call, "ErrDatabaseOpen", FALSE, call.recv)
                /\ UNCHANGED <<lock, opens>>
        /\ UNCHANGED <<store, written, script, nosql, web, log, closes>>

\* return before the record store is opened
RejectRecord(c, call, err) ==
    /\ ret' = RecordResult(c, call, err, FALSE, call.recv)
    /\ UNCHANGED <<store, written, dirs, lock, pc, op, script, nosql, web, log, opens, closes>>

\* return with the handle open: the deferred db.Close() releases the lock
ReturnRecord(c, err, exists, value) ==
    /\ pc' = [pc EXCEPT ![c] = "idle"]
    /\ op' = [op EXCEPT ![c] = NoCall]
    /\ lock' = NoCaller
    /\ closes' = [closes EXCEPT ![c] = @ + 1]
    /\ ret' = RecordResult(c, op[c], err, exists, value)
    /\ UNCHANGED <<dirs, script, nosql, web, log, opens>>

\* -------------------------------------------------------------------- users
\* written: for each key, the User of the latest Put
UserIds == {"", "p", "q"}

Users == [PersonId : UserIds, Profile : {"", "x", InvalidUTF8}, AccountTime : {0, 1234567890}]

\* s.SaveUserData()
SaveUserData(c, users, faults) ==
    /\ At(c, "idle")
    /\ \E s \in users, fault \in faults :
          LET call == RecordCall("SaveUserData", s.PersonId, s)
          IN  IF s.PersonId = "" THEN RejectRecord(c, call, "ErrInvalidUsername")
              ELSE OpenRecords(c, call, fault, "save_user")

SaveUserDataPut(c, writeFaults) ==
    /\ At(c, "save_user")
    /\ \E putFails \in writeFaults :
          LET s == op[c].recv
              bytes == MarshalUser(s)
          IN  IF bytes.err
              THEN /\ ReturnRecord(c, "ErrSerialize", FALSE, s)
                   /\ UNCHANGED <<store, written>>
              ELSE IF putFails
              THEN /\ ReturnRecord(c, "ErrDatabaseWrite", FALSE, s)
                   /\ UNCHANGED <<store, written>>
              ELSE /\ store' = Put(store, s.PersonId, bytes.bytes)
                   /\ written' = Put(written, s.PersonId, s)
                   /\ ReturnRecord(c, "nil", FALSE, s)

\* g.GetUserData(userName)
GetUserData(c, ids, users, faults) ==
    /\ At(c, "idle")
    /\ \E userName \in ids, g \in users, fault \in faults :
          LET call == RecordCall("GetUserData", userName, g)
          IN  IF userName = "" THEN RejectRecord(c, call, "ErrInvalidUsername")
              ELSE OpenRecords(c, call, fault, "get_user")

GetUserDataRead(c) ==
    /\ At(c, "get_user")
    /\ LET userName == op[c].keys[1]
           g == op[c].recv
       IN  IF ~Has(store, userName) THEN ReturnRecord(c, "ErrDatabaseRead", FALSE, g)
           ELSE LET data == UnmarshalUser(store[userName], g)
                IN  IF data.err THEN ReturnRecord(c, "ErrDeserialize", FALSE, data.user)
                    ELSE ReturnRecord(c, "nil", FALSE, data.user)
    /\ UNCHANGED <<store, written>>

\* u.UpdateUserData(userName)
UpdateUserData(c, ids, users, faults) ==
    /\ At(c, "idle")
    /\ \E userName \in ids, u \in users, fault \in faults :
          LET call == RecordCall("UpdateUserData", userName, u)
          IN  IF userName = "" THEN RejectRecord(c, call, "ErrInvalidUsername")
              ELSE OpenRecords(c, call, fault, "update_user")

\* the Put of UpdateUserData without the Get in front of it
UpdateUserDataUpsert(c, writeFaults) ==
    /\ At(c, "update_user")
    /\ \E putFails \in writeFaults :
          LET userName == op[c].keys[1]
              u == op[c].recv
              bytes == MarshalUser(u)
          IN  IF bytes.err
              THEN /\ ReturnRecord(c, "ErrSerialize", FALSE, u)
                   /\ UNCHANGED <<store, written>>
              ELSE IF putFails
              THEN /\ ReturnRecord(c, "ErrDatabaseWrite", FALSE, u)
                   /\ UNCHANGED <<store, written>>
              ELSE /\ store' = Put(store, userName, bytes.bytes)
                   /\ written' = Put(written, userName, u)
                   /\ ReturnRecord(c, "nil", FALSE, u)

UpdateUserDataPut(c, writeFaults) ==
    /\ At(c, "update_user")
    /\ \E putFails \in writeFaults :
          LET userName == op[c].keys[1]
              u == op[c].recv
              bytes == MarshalUser(u)
          IN  IF ~Has(store, userName)
              THEN /\ ReturnRecord(c, "ErrDatabaseRead", FALSE, u)
                   /\ UNCHANGED <<store, written>>
              ELSE IF bytes.err
              THEN /\ ReturnRecord(c, "ErrSerialize", FALSE, u)
                   /\ UNCHANGED <<store, written>>
              ELSE IF putFails
              THEN /\ ReturnRecord(c, "ErrDatabaseWrite", FALSE, u)
                   /\ UNCHANGED <<store, written>>
              ELSE /\ store' = Put(store, userName, bytes.bytes)
                   /\ written' = Put(written, userName, u)
                   /\ ReturnRecord(c, "nil", FALSE, u)

\* d.DeleteUserData(userName)
DeleteUserData(c, ids, faults) ==
    /\ At(c, "idle")
    /\ \E userName \in ids, fault \in faults :
          LET call == RecordCall("DeleteUserData", userName, NoUser)
          IN  IF userName = "" THEN RejectRecord(c, call, "ErrInvalidUsername")
              ELSE OpenRecords(c, call, fault, "delete_user")

DeleteUserDataDelete(c, writeFaults) ==
    /\ At(c, "delete_user")
    /\ \E deleteFails \in writeFaults :
          LET userName == op[c].keys[1]
          IN  IF ~Has(store, userName)
              THEN /\ ReturnRecord(c, "ErrUserNotFound", FALSE, NoUser)
                   /\ UNCHANGED <<store, written>>
              ELSE IF deleteFails
              THEN /\ ReturnRecord(c, "ErrDatabaseDelete", FALSE, NoUser)
                   /\ UNCHANGED <<store, written>>
              ELSE /\ store' = Delete(store, userName)
                   /\ written' = Delete(written, userName)
                   /\ ReturnRecord(c, "nil", FALSE, NoUser)

\* UserExists(userName)
UserExists(c, ids, faults) ==
    /\ At(c, "idle")
    /\ \E userName \in ids, fault \in faults :
          LET call == RecordCall("UserExists", userName, NoUser)
          IN  IF userName = "" THEN RejectRecord(c, call, "ErrInvalidUsername")
              ELSE OpenRecords(c, call, fault, "user_exists")

UserExistsRead(c) ==
    /\ At(c, "user_exists")
    /\ ReturnRecord(c, "nil", Has(store, op[c].keys[1]), NoUser)
    /\ UNCHANGED <<store, written>>

\* one caller, any user operation on any input, any fault
NextUsers ==
    \/ Resume
    \/ \E c \in SeqCallers :
        \/ SaveUserData(c, Users, RecordFaults)
        \/ SaveUserDataPut(c, BOOLEAN)
        \/ GetUserData(c, UserIds, Users, RecordFaults)
        \/ GetUserDataRead(c)
        \/ UpdateUserData(c, UserIds, Users, RecordFaults)
        \/ UpdateUserDataPut(c, BOOLEAN)
        \/ DeleteUserData(c, UserIds, RecordFaults)
        \/ DeleteUserDataDelete(c, BOOLEAN)
        \/ UserExists(c, UserIds, RecordFaults)
        \/ UserExistsRead(c)

SpecUsers == Init /\ [][NextUsers]_vars

\* ------------------------------------------------------------ chat histories
\* written: for each history key whose history a successful
\* AddMessageToHistory created when none was stored, and no other call than
\* successful AddMessageToHistory calls has written since, the messages of
\* these calls in their order
ConvIds == {"", "A", "B"}

\* a Message, reduced to its identifier and its content
NoMessage == [MsgId |-> "", Content |-> ""]

\* no message at all (a nil *Message)
NilMessage == [nil |-> TRUE]

Messages ==
    {NoMessage, [MsgId |-> "1", Content |-> "x"], [MsgId |-> "2", Content |-> InvalidUTF8]}

\* the receivers of the calls: a conversation identifier and the messages the
\* caller holds in memory
ChatHistories == [ConversationId : ConvIds, Messages : {<<>>, <<[MsgId |-> "1", Content |-> "x"]>>}]

\* fmt.Sprintf("history_%s", id) with one key for every conversation
HistoryKeyShared(id) == "history_"

\* fmt.Sprintf("history_%s", id)
HistoryKey(id) == "history_" \o id

\* proto.Marshal(msg)
MarshalMessage(msg) ==
    [err |-> InvalidUTF8 \in {msg.MsgId, msg.Content},
     bytes |-> Entry("content", msg.Content, "") \o Entry("msg_id", msg.MsgId, "")]

\* proto.Unmarshal into a new Message
UnmarshalMessage(bytes) ==
    [err |-> Truncated(bytes),
     msg |-> [MsgId |-> FieldOr(bytes, "msg_id", NoMessage.MsgId),
              Content |-> FieldOr(bytes, "content", NoMessage.Content)]]

\* proto.Marshal(history): the identifier, then one entry for each message,
\* in order
MarshalHistory(h) ==
    [err |-> \/ h.ConversationId = InvalidUTF8
             \/ \E i \in 1..Len(h.Messages) : MarshalMessage(h.Messages[i]).err,
     bytes |-> Entry("conversation_id", h.ConversationId, "")
                   \o [i \in 1..Len(h.Messages) |->
                          <<"messages", MarshalMessage(h.Messages[i]).bytes>>]]

\* the messages in the entries of an encoding, in order
RECURSIVE MessagesIn(_)
MessagesIn(bytes) ==
    IF bytes = <<>> THEN <<>>
    ELSE IF Len(Head(bytes)) = 2 /\ Head(bytes)[1] = "messages"
    THEN <<UnmarshalMessage(Head(bytes)[2]).msg>> \o MessagesIn(Tail(bytes))
    ELSE MessagesIn(Tail(bytes))

\* proto.Unmarshal(data, ch): the receiver is reset, then every entry sets its
\* field or appends its message
UnmarshalHistory(bytes, into) ==
    [err |-> Truncated(bytes),
     history |-> [ConversationId |-> FieldOr(bytes, "conversation_id", ""),
                  Messages |-> MessagesIn(bytes)]]

\* a call ch.AddMessageToHistory(msg); recv is the receiver as the call has
\* left it so far
AddCall(ch, msg) ==
    [name |-> "AddMessageToHistory", keys |-> <<ch.ConversationId>>, shard |-> Zero,
     recv |-> ch, msg |-> msg]

\* the messages stored and recorded under key k
StoredMessages(m, k) == IF Has(m, k) THEN UnmarshalHistory(m[k], <<>>).history.Messages ELSE <<>>

Recorded(k) == IF Has(written, k) THEN written[k] ELSE <<>>

\* msg.SaveChatHistory()
SaveChatHistory(c, histories, faults) ==
    /\ At(c, "idle")
    /\ \E msg \in histories, fault \in faults :
          LET call == RecordCall("SaveChatHistory", msg.ConversationId, msg)
          IN  IF msg.ConversationId = "" THEN RejectRecord(c, call, "ErrInvalidConvID")
              ELSE OpenRecords(c, call, fault, "history_put")

\* Marshal and Put under the handle, for SaveChatHistory called directly and
\* from AddMessageToHistory
SaveChatHistoryPut(c, writeFaults) ==
    /\ At(c, "history_put")
    /\ \E putFails \in writeFaults :
          LET msg == op[c].recv
              k == HistoryKey(msg.ConversationId)
              byteData == MarshalHistory(msg)
          IN  IF byteData.err
              THEN /\ ReturnRecord(c, "ErrSerialize", FALSE, msg)
                   /\ UNCHANGED <<store, written>>
              ELSE IF putFails
              THEN /\ ReturnRecord(c, "ErrDatabaseWrite", FALSE, msg)
                   /\ UNCHANGED <<store, written>>
              ELSE /\ store' = Put(store, k, byteData.bytes)
                   /\ written' = IF op[c].name # "AddMessageToHistory"
                                 THEN Delete(written, k)
                                 ELSE IF ~Has(store, k) THEN Put(written, k, <<op[c].msg>>)
                                 ELSE IF Has(written, k)
                                 THEN Put(written, k, Append(written[k], op[c].msg))
                                 ELSE written
                   /\ ReturnRecord(c, "nil", FALSE, msg)

\* ch.GetChatHistory()
GetChatHistory(c, histories, faults) ==
    /\ At(c, "idle")
    /\ \E ch \in histories, fault \in faults :
          LET call == RecordCall("GetChatHistory", ch.ConversationId, ch)
          IN  IF ch.ConversationId = "" THEN RejectRecord(c, call, "ErrInvalidConvID")
              ELSE OpenRecords(c, call, fault, "history_get")

GetChatHistoryRead(c) ==
    /\ At(c, "history_get")
    /\ LET ch == op[c].recv
           k == HistoryKey(ch.ConversationId)
       IN  IF ~Has(store, k) THEN ReturnRecord(c, "ErrChatHistoryNotFound", FALSE, ch)
           ELSE LET data == UnmarshalHistory(store[k], ch)
                IN  IF data.err THEN ReturnRecord(c, "ErrDeserialize", FALSE, data.history)
                    ELSE ReturnRecord(c, "nil", FALSE, data.history)
    /\ UNCHANGED <<store, written>>

\* ch.AddMessageToHistory(msg), up to the open of its GetChatHistory: when the
\* open fails the receiver gets an empty message list and the new message
AddMessageToHistory(c, histories, msgs, faults) ==
    /\ At(c, "idle")
    /\ \E ch \in histories, msg \in msgs, fault \in faults :
          LET call == AddCall(ch, msg)
              k == HistoryKey(ch.ConversationId)
              db == CreateCommonDatabase(fault)
          IN  /\ Len(Recorded(k)) < MaxHistory
              /\ Len(StoredMessages(store, k)) < MaxHistory
              /\ IF ch.ConversationId = "" THEN RejectRecord(c, call, "ErrInvalidConvID")
                 ELSE IF msg = NilMessage THEN RejectRecord(c, call, "ErrInvalidMessageID")
                 ELSE /\ dirs' = db.dirs
                      /\ ret' = NoRet
                      /\ IF db.ok
                         THEN /\ pc' = [pc EXCEPT ![c] = "add_get"]
                              /\ op' = [op EXCEPT ![c] = call]
                              /\ lock' = c
                              /\ opens' = [opens EXCEPT ![c] = @ + 1]
                         ELSE /\ pc' = [pc EXCEPT ![c] = "add_save"]
                              /\ op' = [op EXCEPT ![c] =
                                           AddCall([ch EXCEPT !.Messages = <<msg>>], msg)]
                              /\ UNCHANGED <<lock, opens>>
                      /\ UNCHANGED <<store, written, script, nosql, web, log, closes>>

\* the Get and Unmarshal of its GetChatHistory, whose handle is then closed:
\* after any error the receiver gets an empty message list; the new message
\* is appended
AddMessageToHistoryGet(c) ==
    /\ At(c, "add_get")
    /\ LET ch == op[c].recv
           k == HistoryKey(ch.ConversationId)
           data == UnmarshalHistory(store[k], ch)
           found == IF ~Has(store, k) THEN [ch EXCEPT !.Messages = <<>>]
                    ELSE IF data.err THEN [data.history EXCEPT !.Messages = <<>>]
                    ELSE data.history
       IN  /\ op' = [op EXCEPT ![c].recv =
                        [found EXCEPT !.Messages = Append(found.Messages, op[c].msg)]]
           /\ pc' = [pc EXCEPT ![c] = "add_save"]
           /\ lock' = NoCaller
           /\ closes' = [closes EXCEPT ![c] = @ + 1]
    /\ UNCHANGED <<store, written, dirs, ret, script, nosql, web, log, opens>>

\* the call of SaveChatHistory that ends AddMessageToHistory, up to its open
AddMessageToHistorySave(c, faults) ==
    /\ At(c, "add_save")
    /\ \E fault \in faults :
          LET db == CreateCommonDatabase(fault)
          IN  IF op[c].recv.ConversationId = ""
              THEN /\ pc' = [pc EXCEPT ![c] = "idle"]
                   /\ op' = [op EXCEPT ![c] = NoCall]
                   /\ ret' = RecordResult(c, op[c], "ErrInvalidConvID", FALSE, op[c].recv)
                   /\ UNCHANGED <<store, written, dirs, lock, script, nosql, web, log, opens, closes>>
              ELSE /\ dirs' = db.dirs
                   /\ IF db.ok
                      THEN /\ pc' = [pc EXCEPT ![c] = "history_put"]
                           /\ lock' = c
                           /\ opens' = [opens EXCEPT ![c] = @ + 1]
                           /\ UNCHANGED <<op, ret>>
                      ELSE /\ pc' = [pc EXCEPT ![c] = "idle"]
                           /\ op' = [op EXCEPT ![c] = NoCall]
                           /\ ret' = RecordResult(c, op[c], "ErrDatabaseOpen", FALSE,
                                                  op[c].recv)
                           /\ UNCHANGED <<lock, opens>>
                   /\ UNCHANGED <<store, written, script, nosql, web, log, closes>>

\* one caller, any chat history operation on any input, any fault
NextChat ==
    \/ Resume
    \/ \E c \in SeqCallers :
        \/ SaveChatHistory(c, ChatHistories, RecordFaults)
        \/ SaveChatHistoryPut(c, BOOLEAN)
        \/ GetChatHistory(c, ChatHistories, RecordFaults)
        \/ GetChatHistoryRead(c)
        \/ AddMessageToHistory(c, ChatHistories, Messages \cup {NilMessage}, RecordFaults)
        \/ AddMessageToHistoryGet(c)
        \/ AddMessageToHistorySave(c, RecordFaults)

SpecChat == Init /\ [][NextChat]_vars

\* concurrent callers add messages to one conversation, on a store without
\* faults
SharedHistory == [ConversationId |-> "A", Messages |-> <<>>]

NextChatConc ==
    \/ Resume
    \/ \E c \in Callers :
        \/ AddMessageToHistory(c, {SharedHistory}, {m \in Messages : ~MarshalMessage(m).err}, NoFault)
        \/ AddMessageToHistoryGet(c)
        \/ AddMessageToHistorySave(c, NoFault)
        \/ SaveChatHistoryPut(c, {FALSE})

SpecChatConc == Init /\ [][NextChatConc]_vars

\* ------------------------------------------------------------------ messages
\* SaveMessage keeps a message in the store Database/Common/Shard_0.sqlite;
\* Get, Update and Delete of a Message open the store Database/NOSQL.
NosqlParams == <<DefaultBaseDir, <<"N", "O", "S", "Q", "L">>, <<"/">>>>

\* fmt.Sprintf("chat_%s", msg.GetMsgId())
MessageKey(id) == "chat_" \o id

\* open the store Database/NOSQL and hold the handle at position next, or
\* return ErrDatabaseOpen
OpenMessages(c, call, fault, next) ==
    LET db == CreateLevelDBDatabaseWith(dirs, lock # NoCaller, NosqlParams, fault)
    IN  /\ dirs' = db.dirs
        /\ IF db.handle
           THEN /\ pc' = [pc EXCEPT ![c] = next]
                /\ op' = [op EXCEPT ![c] = call]
                /\ lock' = c
                /\ opens' = [opens EXCEPT ![c] = @ + 1]
                /\ ret' = NoRet
           ELSE /\ pc' = [pc EXCEPT ![c] = "idle"]
                /\ op' = [op EXCEPT ![c] = NoCall]
                /\ ret' = RecordResult(c, call, "ErrDatabaseOpen", FALSE, call.recv)
                /\ UNCHANGED <<lock, opens>>
        /\ UNCHANGED <<store, written, script, nosql, web, log, closes>>

\* return with the handle on Database/NOSQL open: the deferred db.Close()
\* releases the lock
ReturnMessage(c, err, value) ==
    /\ pc' = [pc EXCEPT ![c] = "idle"]
    /\ op' = [op EXCEPT ![c] = NoCall]
    /\ lock' = NoCaller
    /\ closes' = [closes EXCEPT ![c] = @ + 1]
    /\ ret' = RecordResult(c, op[c], err, FALSE, value)
    /\ UNCHANGED <<store, written, dirs, script, web, log, opens>>

\* msg.SaveMessage()
SaveMessage(c, msgs, faults) ==
    /\ At(c, "idle")
    /\ \E msg \in msgs, fault \in faults :
          LET call == RecordCall("SaveMessage", msg.MsgId, msg)
          IN  IF msg.MsgId = "" THEN RejectRecord(c, call, "ErrInvalidMessageID")
              ELSE OpenRecords(c, call, fault, "save_message")

SaveMessagePut(c, writeFaults) ==
    /\ At(c, "save_message")
    /\ \E putFails \in writeFaults :
          LET msg == op[c].recv
              byteData == MarshalMessage(msg)
          IN  IF byteData.err
              THEN /\ ReturnRecord(c, "ErrSerialize", FALSE, msg)
                   /\ UNCHANGED store
              ELSE IF putFails
              THEN /\ ReturnRecord(c, "ErrDatabaseWrite", FALSE, msg)
                   /\ UNCHANGED store
              ELSE /\ store' = Put(store, MessageKey(msg.MsgId), byteData.bytes)
                   /\ ReturnRecord(c, "nil", FALSE, msg)
    /\ UNCHANGED written

\* msg.Get()
MessageGet(c, msgs, faults) ==
    /\ At(c, "idle")
    /\ \E msg \in msgs, fault \in faults :
          LET call == RecordCall("Get", msg.MsgId, msg)
          IN  IF msg.MsgId = "" THEN RejectRecord(c, call, "ErrInvalidMessageID")
              ELSE OpenMessages(c, call, fault, "message_get")

\* msg.Get() looking the message up in the store of SaveMessage
MessageGetReadCommon(c) ==
    /\ At(c, "message_get")
    /\ LET msg == op[c].recv
           k == MessageKey(msg.MsgId)
       IN  IF ~Has(store, k) THEN ReturnMessage(c, "ErrMessageNotFound", msg)
           ELSE LET data == UnmarshalMessage(store[k])
                IN  IF data.err THEN ReturnMessage(c, "ErrDeserialize", data.msg)
                    ELSE ReturnMessage(c, "nil", data.msg)
    /\ UNCHANGED nosql

MessageGetRead(c) ==
    /\ At(c, "message_get")
    /\ LET msg == op[c].recv
           k == MessageKey(msg.MsgId)
       IN  IF ~Has(nosql, k) THEN ReturnMessage(c, "ErrMessageNotFound", msg)
           ELSE LET data == UnmarshalMessage(nosql[k])
                IN  IF data.err THEN ReturnMessage(c, "ErrDeserialize", data.msg)
                    ELSE ReturnMessage(c, "nil", data.msg)
    /\ UNCHANGED nosql

\* msg.Update()
MessageUpdate(c, msgs, faults) ==
    /\ At(c, "idle")
    /\ \E msg \in msgs, fault \in faults :
          LET call == RecordCall("Update", msg.MsgId, msg)
          IN  IF msg.MsgId = "" THEN RejectRecord(c, call, "ErrInvalidMessageID")
              ELSE OpenMessages(c, call, fault, "message_update")

MessageUpdatePut(c, writeFaults) ==
    /\ At(c, "message_update")
    /\ \E putFails \in writeFaults :
          LET msg == op[c].recv
              key == MessageKey(msg.MsgId)
              data == MarshalMessage(msg)
          IN  IF ~Has(nosql, key)
              THEN ReturnMessage(c, "ErrMessageNotFound", msg) /\ UNCHANGED nosql
              ELSE IF data.err
              THEN ReturnMessage(c, "ErrSerialize", msg) /\ UNCHANGED nosql
              ELSE IF putFails
              THEN ReturnMessage(c, "ErrDatabaseWrite", msg) /\ UNCHANGED nosql
              ELSE /\ nosql' = Put(nosql, key, data.bytes)
                   /\ ReturnMessage(c, "nil", msg)

\* msg.Delete()
MessageDelete(c, msgs, faults) ==
    /\ At(c, "idle")
    /\ \E msg \in msgs, fault \in faults :
          LET call == RecordCall("Delete", msg.MsgId, msg)
          IN  IF msg.MsgId = "" THEN RejectRecord(c, call, "ErrInvalidMessageID")
              ELSE OpenMessages(c, call, fault, "message_delete")

MessageDeleteDelete(c, writeFaults) ==
    /\ At(c, "message_delete")
    /\ \E deleteFails \in writeFaults :
          LET msg == op[c].recv
              key == MessageKey(msg.MsgId)
          IN  IF ~Has(nosql, key)
              THEN ReturnMessage(c, "ErrMessageNotFound", msg) /\ UNCHANGED nosql
              ELSE IF deleteFails
              THEN ReturnMessage(c, "ErrDatabaseDelete", msg) /\ UNCHANGED nosql
              ELSE /\ nosql' = Delete(nosql, key)
                   /\ ReturnMessage(c, "nil", msg)

\* one caller, any message operation on any message, any fault
NextMessages ==
    \/ Resume
    \/ \E c \in SeqCallers :
        \/ SaveMessage(c, Messages, RecordFaults)
        \/ SaveMessagePut(c, BOOLEAN)
        \/ MessageGet(c, Messages, PathFaults)
        \/ MessageGetRead(c)
        \/ MessageUpdate(c, Messages, PathFaults)
        \/ MessageUpdatePut(c, BOOLEAN)
        \/ MessageDelete(c, Messages, PathFaults)
        \/ MessageDeleteDelete(c, BOOLEAN)

SpecMessages == Init /\ [][NextMessages]_vars

\* ------------------------------------------------------ rate limiter calls
\* One limiter, made with any of these configurations; clients call Allow at
\* any time on a clock that does not go back, and every answer is kept with
\* the time of its call.
ClientIPs == {"192.168.1.1", "10.0.0.2"}

RateLimiterConfigs == [RequestsPerSecond : 0..2, BurstSize : 0..3]

InitLimiter ==
    /\ store = <<>>
    /\ written = <<>>
    /\ dirs = {}
    /\ lock = NoCaller
    /\ pc = [c \in Callers |-> "idle"]
    /\ op = [c \in Callers |-> NoCall]
    /\ ret = NoRet
    /\ script = <<>>
    /\ log = <<>>
    /\ opens = [c \in Callers |-> 0]
    /\ closes = [c \in Callers |-> 0]
    /\ rl \in {NewRateLimiter(config) : config \in RateLimiterConfigs}
    /\ now = 0
    /\ sent = 0
    /\ nosql = <<>>

\* the answer of rl.Allow(clientIP) called by c at time at
AllowResult(c, clientIP, at, allowed) ==
    [caller |-> c, call |-> Call("Allow", <<clientIP>>, Zero), err |-> "nil", key |-> "",
     shard |-> Zero, exists |-> allowed, path |-> <<>>, handle |-> FALSE, at |-> at]

\* a call rl.Allow(clientIP)
AllowCall(c, clients) ==
    /\ At(c, "idle")
    /\ Len(log) < MaxCalls
    /\ \E clientIP \in clients :
          LET r == Allow(rl, clientIP, now)
          IN  /\ rl' = r.rl
              /\ ret' = AllowResult(c, clientIP, now, r.ok)
    /\ UNCHANGED <<store, written, dirs, lock, pc, op, script, nosql, log, opens, closes, now, sent>>

\* time passes between two calls
Tick ==
    /\ ret = NoRet
    /\ now < MaxTicks
    /\ now' = now + 1
    /\ UNCHANGED <<store, written, dirs, lock, pc, op, ret, script, nosql, log, opens, closes,
                   rl, sent>>

NextLimiter ==
    \/ ResumeLogged
    \/ Tick
    \/ \E c \in SeqCallers : AllowCall(c, ClientIPs)

SpecLimiter == InitLimiter /\ [][NextLimiter]_vars

\* -------------------------------------------------------------- HTTP routes
\* The router of setupRouter serves one request at a time.  A request is its
\* method, its path and its query, the sequence of the <<key, value>> pairs
\* of the URL; the AI service answers, cannot be reached, or breaks off its
\* answer.
Methods == {"POST", "GET"}

Paths == {"/api/v1/chat", "/chat", "/health", "/other"}

Queries ==
    {<<>>, <<<<"response", "">>>>, <<<<"response", "hi">>>>, <<<<"other", "hi">>>>,
     <<<<"response", "">>, <<"response", "hi">>>>, <<<<"other", "">>, <<"response", "hi">>>>}

Requests == [method : Methods, path : Paths, query : Queries]

AIOutcomes == {"ok", "post_error", "read_error"}

\* c.GetQuery(key): the first value of the key in the query, and whether the
\* key is there
GetQuery(query, key) ==
    LET at == {i \in 1..Len(query) : query[i][1] = key}
    IN  IF at = {} THEN [value |-> "", exists |-> FALSE]
        ELSE [value |-> query[First(at)][2], exists |-> TRUE]

\* c.JSON(status, Response{...}), and whether the handler has posted a
\* request to the AI service
Response(status, success, error, data, posted) ==
    [status |-> status, success |-> success, error |-> error, data |-> data,
     posted |-> posted]

\* the chat handler that only asks for the parameter to be there
chatResponseAnyPrompt(request, outcome) ==
    LET prompt == GetQuery(request.query, "response")
    IN  IF ~prompt.exists
        THEN Response(400, FALSE, "Missing 'response' query parameter", "", FALSE)
        ELSE IF outcome = "post_error"
        THEN Response(503, FALSE, "AI service unavailable", "", TRUE)
        ELSE IF outcome = "read_error"
        THEN Response(500, FALSE, "Failed to read AI response", "", TRUE)
        ELSE Response(200, TRUE, "", "body", TRUE)

\* chatResponse(config): the handler of both chat routes
chatResponse(request, outcome) ==
    LET prompt == GetQuery(request.query, "response")
    IN  IF ~prompt.exists \/ prompt.value = ""
        THEN Response(400, FALSE, "Missing 'response' query parameter", "", FALSE)
        ELSE IF outcome = "post_error"
        THEN Response(503, FALSE, "AI service unavailable", "", TRUE)
        ELSE IF outcome = "read_error"
        THEN Response(500, FALSE, "Failed to read AI response", "", TRUE)
        ELSE Response(200, TRUE, "", "body", TRUE)

\* healthCheck
healthCheck == Response(200, TRUE, "", "healthy", FALSE)

\* the router of setupRouter: a request for no registered route gets 404
setupRouter(request, outcome) ==
    IF request.method = "GET" /\ request.path = "/health" THEN healthCheck
    ELSE IF request.method = "POST" /\ request.path \in {"/api/v1/chat", "/chat"}
    THEN chatResponse(request, outcome)
    ELSE Response(404, FALSE, "404 page not found", "", FALSE)

\* the response to a request served for c
HttpResult(c, request, response) ==
    [caller |-> c, call |-> Call("ServeHTTP", <<request.method, request.path>>, Zero),
     err |-> "nil", key |-> "", shard |-> Zero, exists |-> FALSE, path |-> <<>>,
     handle |-> FALSE, request |-> request, response |-> response]

\* router.ServeHTTP(w, req)
ServeHTTP(c, requests, outcomes) ==
    /\ At(c, "idle")
    /\ sent < MaxPosts
    /\ \E request \in requests, outcome \in outcomes :
          LET response == setupRouter(request, outcome)
          IN  /\ sent' = IF response.posted THEN sent + 1 ELSE sent
              /\ ret' = HttpResult(c, request, response)
    /\ UNCHANGED <<store, written, dirs, lock, pc, op, script, nosql, log, opens, closes, rl, now>>

NextHttp ==
    \/ Resume
    \/ \E c \in SeqCallers : ServeHTTP(c, Requests, AIOutcomes)

SpecHttp == Init /\ [][NextHttp]_vars

\* ------------------------------------------------------------- properties
\* caller c takes the step that ends its call
Returns(c) == pc[c] # "idle" /\ pc'[c] = "idle" /\ ret'.caller = c

\* what FragmentationGet makes of the bytes stored under k
Reads(m, k, s) == Has(m, k) /\ ParseInt(m[k]) = [n |-> s, err |-> "nil"]

\* C1: round trip.  A FragmentationGet that reads key k returns exactly
\* (s, nil), where s is the int64 argument of the latest Put to k: the shard of
\* an Add(s, k) that no other write to k has followed.  This holds for every
\* shard, the negative ones and both int64 extremes included.
C1_RoundTrip ==
    [][\A c \in Callers :
         (pc[c] = "get" /\ Returns(c) /\ Has(written, op[c].keys[1]))
             => /\ ret'.call = op[c]
                /\ ret'.err = "nil"
                /\ ret'.shard = written[op[c].keys[1]]]_vars

\* a Get has returned the most negative int64, as an Add stored it
C1_Witness ==
    /\ ret.call.name = "Get"
    /\ ret.err = "nil"
    /\ ret.shard = MinInt64
    /\ written[ret.call.keys[1]] = MinInt64

\* C2: upsert.  In the run Add(s1, k), Add(s2, k), Get(k), started on any
\* directory, both Adds return nil and the Get returns (s2, nil); and in every
\* state each present key holds one value, the decimal text of the shard
\* written last.
C2_UpsertOverwrite ==
    /\ \A k \in DOMAIN store : Reads(store, k, written[k])
    /\ DOMAIN store = DOMAIN written
    /\ (Len(script) = 3 /\ Len(log) = 3)
          => /\ log[1].err = "nil"
             /\ log[2].err = "nil"
             /\ log[3].err = "nil"
             /\ log[3].shard = script[2].shard

\* the upsert run is over, the second Add carried another shard than the first
C2_Witness ==
    /\ Len(script) = 3
    /\ Len(log) = 3
    /\ script[1].shard = MaxInt64
    /\ script[2].shard = MinusOne
    /\ log[3].shard = MinusOne

\* C3: update requires existence.  With one caller, a FragmentationUpdate that
\* finds its key absent returns an error wrapping ErrShardNotFound, and no step
\* of an update of an absent key changes the directory: the key is not created.
C3_UpdateRequiresExistence ==
    [][\A c \in Callers :
         /\ (pc[c] = "update_exists" /\ pc'[c] # pc[c] /\ ~Has(store, op[c].keys[1]))
               => /\ Returns(c)
                  /\ ret'.call = op[c]
                  /\ ret'.err = "ErrShardNotFound"
                  /\ store' = store
         /\ (pc[c] = "idle" /\ pc'[c] = "update_exists") => store' = store]_vars

\* an update of a key that is not in the directory has just failed
C3_Witness ==
    /\ ret.call.name = "Update"
    /\ ret.err = "ErrShardNotFound"
    /\ ~Has(store, ret.call.keys[1])

\* C4: reassignment lifecycle.  In the run Add(s, k), Get(k), Update(k, t),
\* Get(k), Remove(k), Exists(k) of one caller, started on any directory, every
\* call returns nil, the first Get returns s, the Get after the update returns
\* t, and the final Exists returns false.
C4_ReassignmentLifecycle ==
    (Len(script) = 6 /\ Len(log) = 6)
        => /\ \A i \in 1..6 : log[i].err = "nil" /\ log[i].call = script[i]
           /\ log[2].shard = script[1].shard
           /\ log[4].shard = script[3].shard
           /\ log[6].exists = FALSE

\* the lifecycle run is over and the update moved the key to another shard
C4_Witness ==
    /\ Len(script) = 6
    /\ Len(log) = 6
    /\ script[1].shard = Seven
    /\ script[3].shard = MinInt64
    /\ log[2].shard = Seven
    /\ log[4].shard = MinInt64

\* C5: remove requires existence.  With one caller, a FragmentationRemove that
\* finds its key absent returns an error wrapping ErrShardNotFound, and no step
\* of a remove of an absent key changes any assignment.
C5_RemoveRequiresExistence ==
    [][\A c \in Callers :
         /\ (pc[c] = "remove" /\ pc'[c] # pc[c] /\ ~Has(store, op[c].keys[1]))
               => /\ Returns(c)
                  /\ ret'.call = op[c]
                  /\ ret'.err = "ErrShardNotFound"
                  /\ store' = store
         /\ (pc[c] = "idle" /\ pc'[c] = "remove") => store' = store]_vars

\* a remove of a key that is not in the directory has just failed, next to
\* an assignment that is still there
C5_Witness ==
    /\ ret.call.name = "Remove"
    /\ ret.err = "ErrShardNotFound"
    /\ ~Has(store, ret.call.keys[1])
    /\ DOMAIN store # {}

\* C6: remove of a present key.  In the run Add(s, k), Remove(k), Exists(k),
\* Get(k), started on any directory, the Add and the Remove return nil, Exists
\* returns (false, nil) and Get fails with ErrShardNotFound.
C6_RemovePresent ==
    (Len(script) = 4 /\ Len(log) = 4)
        => /\ \A i \in 1..4 : log[i].call = script[i]
           /\ log[1].err = "nil"
           /\ log[2].err = "nil"
           /\ log[3].err = "nil" /\ log[3].exists = FALSE
           /\ log[4].err = "ErrShardNotFound"

\* the remove run is over and the key is gone
C6_Witness ==
    /\ Len(script) = 4
    /\ Len(log) = 4
    /\ log[2].err = "nil"
    /\ ~Has(store, script[2].keys[1])

\* caller c makes a call in this step (it may return in the same step)
Starts(c) == ret = NoRet /\ pc[c] = "idle" /\ (pc'[c] # "idle" \/ ret'.caller = c)

\* the call caller c makes in this step
CallMade(c) == IF pc'[c] # "idle" THEN op'[c] ELSE ret'.call

\* the call returns err in the step that makes it, and does no I/O
RejectedWith(c, err) ==
    /\ ret'.caller = c
    /\ ret'.err = err
    /\ UNCHANGED <<store, written, dirs, lock, pc, opens, closes>>

\* C7 as stated: every operation, FragmentationAdd included, called with ""
\* as its key returns ErrEmptyKey without opening the store or creating a
\* directory.
C7_EmptyKeyRejectedByAll ==
    [][\A c \in Callers :
         (Starts(c) /\ CallMade(c).keys = <<"">>) => RejectedWith(c, "ErrEmptyKey")]_vars

\* C7, amended: FragmentationGet, FragmentationUpdate, FragmentationRemove and
\* FragmentationExists called with "" return ErrEmptyKey without opening the
\* store or creating a directory; FragmentationAdd called with "" as its only
\* key does not return ErrEmptyKey: it opens the store (creating the directory
\* when it is missing), skips the key, stores nothing and returns nil.
C7_EmptyKeyRejection ==
    [][\A c \in Callers :
         /\ (Starts(c) /\ CallMade(c).keys = <<"">> /\ CallMade(c).name # "Add")
               => RejectedWith(c, "ErrEmptyKey")
         /\ (Starts(c) /\ CallMade(c).keys = <<"">> /\ CallMade(c).name = "Add")
               => \/ ret'.caller = c /\ ret'.err = "ErrDatabaseOpen"
                  \/ pc'[c] = "add" /\ lock' = c /\ SchemaDir \in dirs'
         /\ (pc[c] = "add" /\ op[c].keys = <<"">> /\ Returns(c))
               => ret'.err = "nil" /\ store' = store]_vars

\* an update with the empty key has just been rejected and no directory exists
C7_Witness ==
    /\ ret.call.name = "Update"
    /\ ret.call.keys = <<"">>
    /\ ret.err = "ErrEmptyKey"
    /\ dirs = {}
    /\ lock = NoCaller

\* C8: FragmentationAdd called with an empty key list returns ErrEmptyKey in
\* the step of the call: the store is not opened, no directory is created and
\* no assignment changes.
C8_EmptyKeyList ==
    [][\A c \in Callers :
         (Starts(c) /\ CallMade(c).name = "Add" /\ CallMade(c).keys = <<>>)
             => RejectedWith(c, "ErrEmptyKey")]_vars

\* an Add with no keys has just been rejected and no directory exists
C8_Witness ==
    /\ ret.call.name = "Add"
    /\ ret.call.keys = <<>>
    /\ ret.err = "ErrEmptyKey"
    /\ dirs = {}
    /\ lock = NoCaller

\* C9: batch add with mixed validity.  A FragmentationAdd that opened the
\* store returns nil unless a Put failed; when it returns nil every non-empty
\* key of its list reads as the shard of the call, whatever empty entries the
\* list holds; and nothing is ever stored under the empty key.
C9_BatchAdd ==
    [][\A c \in Callers :
         (pc[c] = "add" /\ Returns(c))
             => /\ ret'.call = op[c]
                /\ ret'.err \in {"nil", "ErrFragmentationWrite"}
                /\ ~Has(store', "")
                /\ ret'.err = "nil"
                      => \A i \in 1..Len(op[c].keys) :
                            op[c].keys[i] # "" => Reads(store', op[c].keys[i], op[c].shard)]_vars

\* Add(-1, "a", "", "b") has returned nil with a and b on shard -1
C9_Witness ==
    /\ ret.call = Call("Add", <<"a", "", "b">>, MinusOne)
    /\ ret.err = "nil"
    /\ Reads(store, "a", MinusOne)
    /\ Reads(store, "b", MinusOne)
    /\ ~Has(store, "")

\* key k holds in m2 what it held in m1
SameAt(m1, m2, k) == Has(m1, k) = Has(m2, k) /\ (Has(m1, k) => m1[k] = m2[k])

\* C10: fail-fast, no rollback.  A FragmentationAdd that returns an error after
\* it opened the store returns ErrFragmentationWrite for the key at some
\* position i of its list: the non-empty keys before i read as the shard of the
\* call, and every key that does not occur before i holds what it held before
\* the call.
C10_AddFailFast ==
    [][\A c \in Callers :
         (pc[c] = "add" /\ Returns(c) /\ ret'.err # "nil")
             => /\ ret'.err = "ErrFragmentationWrite"
                /\ \E i \in 1..Len(op[c].keys) :
                      /\ op[c].keys[i] = ret'.key
                      /\ op[c].keys[i] # ""
                      /\ \A j \in 1..(i - 1) :
                            op[c].keys[j] # "" => Reads(store', op[c].keys[j], op[c].shard)
                      /\ \A k \in Keys \ {op[c].keys[j] : j \in 1..(i - 1)} :
                            SameAt(store, store', k)]_vars

\* Add(MaxInt64, "a", "a", "b") failed at its second Put: a is on the new
\* shard, b was not written
C10_Witness ==
    /\ ret.call = Call("Add", <<"a", "a", "b">>, MaxInt64)
    /\ ret.err = "ErrFragmentationWrite"
    /\ ret.key = "a"
    /\ Reads(store, "a", MaxInt64)
    /\ ~Has(store, "b")

C12_GetSentinel ==
    [][\A c \in Callers :
         /\ (ret = NoRet /\ ret'.caller = c /\ ret'.call.name = "Get" /\ ret'.err # "nil")
               => /\ ret'.shard = MinusOne
                  /\ ret'.err \in {"ErrEmptyKey", "ErrDatabaseOpen", "ErrShardNotFound",
                                   "ErrShardConversion"}
         /\ (pc[c] = "get" /\ Returns(c) /\ ~Has(store, op[c].keys[1]))
               => ret'.err = "ErrShardNotFound" /\ ret'.shard = MinusOne
         /\ (pc[c] = "get" /\ Returns(c) /\ Has(store, op[c].keys[1])
                 /\ ParseInt(store[op[c].keys[1]]).err # "nil")
               => ret'.err = "ErrShardConversion" /\ ret'.shard = MinusOne]_vars

\* a Get of a stored value that overflows int64 has just failed with -1
C12_Witness ==
    /\ ret.call.name = "Get"
    /\ ret.err = "ErrShardConversion"
    /\ ret.shard = MinusOne
    /\ Has(store, ret.call.keys[1])
    /\ ParseInt(store[ret.call.keys[1]]).err = "range"

\* C13: concurrent distinct keys.  When several callers run FragmentationAdd
\* concurrently, each on keys of its own, every call returns nil and leaves
\* each of its keys reading as the shard of the call.
C13_ConcurrentAddsSucceed ==
    [][\A c \in Callers :
         (ret = NoRet /\ ret'.caller = c /\ ret'.call.name = "Add")
             => /\ ret'.err = "nil"
                /\ \A i \in 1..Len(ret'.call.keys) :
                      Reads(store', ret'.call.keys[i], ret'.call.shard)]_vars

\* caller c tries to open the store in this step: it makes a call that passes
\* validation, or it is at the second open of an update
OpenAttempt(c) ==
    /\ ret = NoRet
    /\ \/ Starts(c) /\ ~(ret'.caller = c /\ ret'.err = "ErrEmptyKey")
       \/ pc[c] = "update_open" /\ pc'[c] # "update_open"

\* C14: storage-open failure.  An operation whose open of the store fails,
\* be it that another caller holds the store, returns ErrDatabaseOpen in that
\* very step: its call is over with no further open, and no assignment and no
\* other caller's handle has changed.
C14_OpenFailure ==
    [][\A c \in Callers :
         (OpenAttempt(c) /\ (lock # NoCaller \/ lock' # c))
             => /\ ret'.caller = c
                /\ ret'.err = "ErrDatabaseOpen"
                /\ pc'[c] = "idle"
                /\ opens'[c] = opens[c]
                /\ closes'[c] = closes[c]
                /\ lock' = lock
                /\ store' = store
                /\ written' = written]_vars

\* the second open of an update was refused because another caller holds the
\* store: the update has returned ErrDatabaseOpen and its key is as it was
C14_Witness ==
    /\ ret.call.name = "Update"
    /\ ret.err = "ErrDatabaseOpen"
    /\ opens[ret.caller] = 1
    /\ lock \notin {NoCaller, ret.caller}
    /\ Reads(store, ret.call.keys[1], written[ret.call.keys[1]])

\* the positions at which an operation holds an open handle
HandlePositions == {"add", "remove", "get", "exists", "update_exists", "update_put"}

\* C15: scoped handle release.  An operation holds a handle exactly at the
\* positions between a successful open and its return (one more open than
\* close); at every other position, and after every return (success,
\* not-found, conversion error, write or delete error), each of its opens has
\* been followed by exactly one Close; when no operation is in progress no
\* handle is open.
C15_HandleRelease ==
    /\ \A c \in Callers :
          IF pc[c] \in HandlePositions
          THEN lock = c /\ opens[c] = closes[c] + 1
          ELSE lock # c /\ opens[c] = closes[c]
    /\ (\A c \in Callers : pc[c] = "idle") => lock = NoCaller
    /\ ret # NoRet
          => /\ pc[ret.caller] = "idle"
             /\ ret.err \in {"ErrShardNotFound", "ErrShardConversion",
                             "ErrFragmentationWrite"} => closes[ret.caller] >= 1

\* a Get has returned a conversion error: one open, one close, no handle left
C15_Witness ==
    /\ ret.call.name = "Get"
    /\ ret.err = "ErrShardConversion"
    /\ opens[ret.caller] = 1
    /\ closes[ret.caller] = 1
    /\ lock = NoCaller

\* C16: assignment lifecycle.  Under any interleaving of the operations of
\* several callers, a key without an assignment gets one only in the write
\* step of a FragmentationAdd: no step of Update, Remove, Get or Exists turns
\* an absent key into a present one.
C16_OnlyAddCreates ==
    [][\A k \in KeysConc :
         (~Has(store, k) /\ Has(store', k))
             => \E c \in Callers : pc[c] = "add" /\ Returns(c)]_vars

\* C17: check-then-act race.  An update that reaches its Put, or a remove
\* that reaches its Delete, after another caller's Remove has taken the key
\* away since the existence check, returns an error, not nil.
C17_RaceReportsFailure ==
    [][\A c \in Callers :
         /\ (pc[c] = "update_put" /\ Returns(c) /\ ~Has(store, op[c].keys[1]))
               => ret'.err # "nil"
         /\ (pc[c] = "remove" /\ Returns(c) /\ ~Has(store, op[c].keys[1]))
               => ret'.err # "nil"]_vars

\* a call of buildPath or CreateLevelDBDatabase returns in this step
Resolves == ret = NoRet /\ ret'.call.name \in {"buildPath", "CreateLevelDBDatabase"}

\* C18: buildPath and CreateLevelDBDatabase called with no component or with
\* one fail with ErrInvalidPath: they return no path and no handle, and no
\* directory is created.
C18_TooFewComponents ==
    [][(Resolves /\ Len(ret'.call.keys) < 2)
          => /\ ret'.err = "ErrInvalidPath"
             /\ ret'.path = <<>>
             /\ ~ret'.handle
             /\ dirs' = dirs
             /\ lock' = lock]_vars

\* buildPath("a") has failed on a file system with no directory of the program
C18_Witness ==
    /\ ret.call = Call("buildPath", <<<<"a">>>>, Zero)
    /\ ret.err = "ErrInvalidPath"
    /\ dirs = {}

\* the directory of a call: its first two components, trimmed and joined
TrimmedDir(params) == Join(<<TrimSpace(params[1]), TrimSpace(params[2])>>)

C20_EmptyComponentRejected ==
    [][(Resolves /\ Len(ret'.call.keys) >= 2
            /\ (TrimSpace(ret'.call.keys[1]) = <<>> \/ TrimSpace(ret'.call.keys[2]) = <<>>))
          => /\ ret'.err # "nil"
             /\ ret'.path = <<>>
             /\ ~ret'.handle
             /\ dirs' = dirs]_vars

\* the characters of p at the positions in keep, in order
RECURSIVE Pick(_, _)
Pick(p, keep) ==
    IF keep = {} THEN <<>>
    ELSE <<p[First(keep)]>> \o Pick(p, keep \ {First(keep)})

\* p without its leading and trailing separators and with one separator for
\* each run of them
Squeeze(p) ==
    Pick(p, {i \in 1..Len(p) :
                \/ p[i] # "/"
                \/ /\ i > 1 /\ p[i - 1] # "/"
                   /\ \E j \in (i + 1)..Len(p) : p[j] # "/"})

\* C21: CleanPath is idempotent and changes nothing but its result: cleaning
\* a cleaned path returns it as it is, and a path cleans to the same result
\* as the path without its leading, trailing and doubled separators, so that
\* two paths differing only in those separators clean alike.
C21_CleanPathIdempotent ==
    [][(ret = NoRet /\ ret'.call.name = "CleanPath")
          => LET p == ret'.call.keys[1]
             IN  /\ ret'.path = CleanPath(p)
                 /\ CleanPath(ret'.path) = ret'.path
                 /\ CleanPath(Squeeze(p)) = ret'.path
                 /\ UNCHANGED <<store, written, dirs, lock, pc, op, script, nosql, web, log,
                                opens, closes>>]_vars

\* CleanPath("//a//b//") has returned a/b, which is what CleanPath("a/b") returns
C21_Witness ==
    /\ ret.call = Call("CleanPath", <<<<"/", "/", "a", "/", "/", "b", "/", "/">>>>, Zero)
    /\ ret.path = <<"a", "/", "b">>
    /\ CleanPath(<<"a", "/", "b">>) = ret.path

\* C22: user record lifecycle.  With one caller, written[p] is the User of
\* the latest successful SaveUserData or UpdateUserData under p, and p is
\* absent from it after a successful DeleteUserData(p).  A GetUserData(p) that
\* gets to read the store returns exactly those fields when p is present,
\* whatever its receiver held before, and an error when p is absent; a
\* UserExists(p) that gets to read returns whether p is present.
C22_UserLifecycle ==
    [][\A c \in Callers :
         LET p == op[c].keys[1]
         IN  /\ (pc[c] \in {"save_user", "update_user"} /\ Returns(c) /\ ret'.err = "nil")
                   => /\ Has(written', p) /\ written'[p] = op[c].recv
                      /\ Has(store', p)
             /\ (pc[c] = "delete_user" /\ Returns(c) /\ ret'.err = "nil")
                   => ~Has(written', p) /\ ~Has(store', p)
             /\ (pc[c] = "get_user" /\ Returns(c))
                   => IF Has(written, p)
                      THEN ret'.err = "nil" /\ ret'.value = written[p]
                      ELSE ret'.err # "nil"
             /\ (pc[c] = "user_exists" /\ Returns(c))
                   => ret'.err = "nil" /\ ret'.exists = Has(written, p)]_vars

\* a GetUserData into a receiver that held other fields has returned the
\* fields an update left under p
C22_Witness ==
    /\ ret.call.name = "GetUserData"
    /\ ret.err = "nil"
    /\ ret.call.keys = <<"p">>
    /\ ret.value = written["p"]
    /\ ret.value = [PersonId |-> "q", Profile |-> "x", AccountTime |-> 0]
    /\ ret.call.recv.AccountTime # 0

\* C23: UpdateUserData(id) and DeleteUserData(id) that find no user stored
\* under id return an error (ErrDatabaseRead, ErrUserNotFound) and leave the
\* contents of the store as they were: the user is not created.  No step
\* that starts such a call changes the contents either, and a call that ends
\* there has failed.
C23_AbsentUserUntouched ==
    [][\A c \in Callers :
         /\ (pc[c] \in {"update_user", "delete_user"} /\ Returns(c)
                 /\ ~Has(store, op[c].keys[1]))
               => /\ ret'.err = IF pc[c] = "update_user" THEN "ErrDatabaseRead"
                                 ELSE "ErrUserNotFound"
                  /\ store' = store
                  /\ ~Has(store', op[c].keys[1])
         /\ (Starts(c) /\ CallMade(c).name \in {"UpdateUserData", "DeleteUserData"})
               => /\ store' = store
                  /\ (pc'[c] = "idle" => ret'.err # "nil")]_vars

\* an update under q has failed: no user is stored under q, one is under p
C23_Witness ==
    /\ ret.call.name = "UpdateUserData"
    /\ ret.call.keys = <<"q">>
    /\ ret.call.recv.PersonId = "q"
    /\ ret.err = "ErrDatabaseRead"
    /\ ~Has(store, "q")
    /\ Has(store, "p")

\* C24: AddMessageToHistory appends in order.  With one caller, for a
\* conversation that had no stored history when a successful
\* AddMessageToHistory created it, and that only successful
\* AddMessageToHistory calls have written since: each of these calls leaves
\* the stored history as the messages of the calls so far, in their order
\* (the first one a history of its one message), and a GetChatHistory that
\* gets to read the store returns exactly these messages.
C24_AppendsInOrder ==
    [][\A c \in Callers :
         LET k == HistoryKey(op[c].keys[1])
         IN  /\ (pc[c] = "history_get" /\ Returns(c) /\ Has(written, k))
                   => /\ ret'.err = "nil"
                      /\ ret'.value.Messages = written[k]
             /\ (pc[c] = "history_put" /\ Returns(c) /\ ret'.err = "nil"
                     /\ op[c].name = "AddMessageToHistory"
                     /\ (Has(written, k) \/ ~Has(store, k)))
                   => /\ Has(store', k)
                      /\ StoredMessages(store', k) = Append(Recorded(k), op[c].msg)]_vars

\* the call that caller c is making or starts in this step
ActingCall(c) == IF pc[c] # "idle" THEN op[c] ELSE CallMade(c)

\* C25: conversations are independent.  No step of an AddMessageToHistory or
\* a SaveChatHistory for a conversation changes what is stored for any other
\* conversation: the history of every other identifier stays absent or keeps
\* its bytes.
C25_ConversationsIndependent ==
    [][\A c \in Callers :
         ((Starts(c) \/ pc[c] # "idle")
             /\ ActingCall(c).name \in {"AddMessageToHistory", "SaveChatHistory"})
           => \A b \in ConvIds \ {ActingCall(c).keys[1]} :
                 SameAt(store, store', HistoryKey(b))]_vars

\* an AddMessageToHistory for B has returned nil and the history of A, with
\* two messages, is as it was written, next to the history of B
C25_Witness ==
    /\ ret.call.name = "AddMessageToHistory"
    /\ ret.call.keys = <<"B">>
    /\ ret.err = "nil"
    /\ Has(store, HistoryKey("B"))
    /\ Has(written, HistoryKey("A"))
    /\ Len(written[HistoryKey("A")]) = 2
    /\ StoredMessages(store, HistoryKey("A")) = written[HistoryKey("A")]

\* the answers a client has got so far, in the order of its calls
CallsOf(clientIP) == SelectSeq(log, LAMBDA r : r.call.keys = <<clientIP>>)

\* C26: rate limiter burst.  With a BurstSize B of one or more, the first B
\* calls of a client that fall within less than one second of its first call
\* are all allowed, and a (B+1)-th call within that second is denied.
C26_Burst ==
    \A clientIP \in ClientIPs :
        LET calls == CallsOf(clientIP)
            B == rl.config.BurstSize
        IN  \A j \in 1..Len(calls) :
                (B >= 1 /\ j <= B + 1 /\ calls[j].at - calls[1].at < TicksPerSecond)
                    => calls[j].exists = (j <= B)

\* with a burst of three, a client was allowed three calls and denied the
\* fourth, all in the same half second
C26_Witness ==
    /\ rl.config.BurstSize = 3
    /\ \E clientIP \in ClientIPs :
          LET calls == CallsOf(clientIP)
          IN  /\ Len(calls) = 4
              /\ \A j \in 1..3 : calls[j].exists
              /\ ~calls[4].exists
              /\ calls[4].at = calls[1].at

\* the place of the last allowed call of calls before place j, 0 when none
LastAllowed(calls, j) ==
    LET allowed == {i \in 1..(j - 1) : calls[i].exists}
    IN  IF allowed = {} THEN 0 ELSE Last(allowed)

\* C27: rate limiter replenishment.  With RequestsPerSecond and BurstSize of
\* one or more, a client that has been denied is allowed its next call made
\* one full second or more after its last allowed call.
C27_Replenishment ==
    \A clientIP \in ClientIPs :
        LET calls == CallsOf(clientIP)
        IN  \A j \in 1..Len(calls) :
                (/\ rl.config.RequestsPerSecond >= 1
                 /\ rl.config.BurstSize >= 1
                 /\ \E i \in 1..(j - 1) : ~calls[i].exists
                 /\ calls[j].at - calls[LastAllowed(calls, j)].at >= TicksPerSecond)
                    => calls[j].exists

\* a client used its burst of three, was denied, and was allowed again one
\* second after its last allowed call, less than a second after the denial
C27_Witness ==
    /\ rl.config = TestRateLimiterConfig
    /\ \E clientIP \in ClientIPs :
          LET calls == CallsOf(clientIP)
          IN  /\ Len(calls) = 5
              /\ \A j \in 1..3 : calls[j].exists
              /\ ~calls[4].exists
              /\ calls[5].exists
              /\ calls[5].at - calls[3].at = TicksPerSecond
              /\ calls[5].at - calls[4].at < TicksPerSecond

\* C28: POST /api/v1/chat and POST /chat answer a request whose 'response'
\* parameter is missing or empty in the same way: status 400, success false,
\* an error message that is not empty, and no request posted to the AI
\* service, whatever the service would have answered.
C28_BadInputRejected ==
    [][(ret = NoRet /\ ret'.call.name = "ServeHTTP"
            /\ ret'.request.method = "POST"
            /\ ret'.request.path \in {"/api/v1/chat", "/chat"}
            /\ LET prompt == GetQuery(ret'.request.query, "response")
               IN  ~prompt.exists \/ prompt.value = "")
          => /\ ret'.response.status = 400
             /\ ~ret'.response.success
             /\ ret'.response.error # ""
             /\ sent' = sent
             /\ \A path \in {"/api/v1/chat", "/chat"}, outcome \in AIOutcomes :
                   setupRouter([ret'.request EXCEPT !.path = path], outcome)
                       = ret'.response]_vars

\* POST /chat?response= has been answered with 400 after an earlier request
\* was posted to the AI service
C28_Witness ==
    /\ ret.call = Call("ServeHTTP", <<"POST", "/chat">>, Zero)
    /\ ret.request.query = <<<<"response", "">>>>
    /\ ret.response.status = 400
    /\ sent = 1

\* C29: one handle for one operation.  Every Add, Get, Exists, Update and
\* Remove that has opened the store returns with exactly one open and exactly
\* one Close made in the call.
C29_OneHandlePerOperation ==
    [][\A c \in Callers :
         Returns(c) => opens'[c] = 1 /\ closes'[c] = 1]_vars

\* caller c has passed the existence check of an update of key k
PastCheck(c, k) == pc[c] \in {"update_open", "update_put"} /\ op[c].keys = <<k>>

\* C30: two concurrent updates of one existing key.  While two callers are
\* both past the existence check of an update of the same key, an update that
\* returns returns nil; a step that changes what is stored under the key is
\* the write of one of them and stores its shard, and the key is never lost.
C30_ConcurrentUpdates ==
    [][\A c, d \in Callers :
         (c # d /\ PastCheck(c, UpdatedKey) /\ PastCheck(d, UpdatedKey))
           => /\ Returns(c) => ret'.err = "nil"
              /\ Has(store', UpdatedKey)
              /\ store'[UpdatedKey] # store[UpdatedKey]
                    => \E w \in {c, d} :
                          /\ Returns(w)
                          /\ Reads(store', UpdatedKey, op[w].shard)]_vars

\* a call that writes key k when it succeeds
WritesKey(call, k) ==
    /\ call.name \in {"Add", "Update", "Remove"}
    /\ \E i \in 1..Len(call.keys) : call.keys[i] = k

\* C31: FragmentationGet and FragmentationExists only read.  No step of a Get
\* or an Exists changes what the store holds under any key, and two Gets of a
\* key with no Add, Update or Remove of that key made between them return the
\* same shard and the same error.
C31_ReadOnly ==
    [][/\ \A c \in Callers :
            (\/ pc[c] \in {"get", "exists"}
             \/ Starts(c) /\ CallMade(c).name \in {"Get", "Exists"})
            => store' = store
       /\ \A i, j \in 1..Len(log') :
            (/\ i < j
             /\ log'[i].call.name = "Get"
             /\ log'[j].call = log'[i].call
             /\ \A m \in (i + 1)..(j - 1) : ~WritesKey(log'[m].call, log'[i].call.keys[1]))
            => /\ log'[j].err = log'[i].err
               /\ log'[j].shard = log'[i].shard]_vars

\* the caller has read twice, with a write to another key in between, a
\* value that is no int64 text
C31_Witness ==
    /\ Len(log) >= 5
    /\ log[3].call.name = "Get" /\ log[5].call = log[3].call
    /\ log[4].call.name = "Add" /\ log[4].err = "nil"
    /\ log[4].call.keys # log[3].call.keys
    /\ log[3].err = "ErrShardConversion" /\ log[5].err = "ErrShardConversion"

\* what the store holds under k is the same before and after the step
Untouched(k) == Has(store', k) = Has(store, k) /\ (Has(store, k) => store'[k] = store[k])

\* caller c is inside an Add, an Update or a Remove
Writing(c) == op[c].name \in {"Add", "Update", "Remove"}

\* C32: no cross-key interference.  A step of an Add, an Update or a Remove,
\* whether the call succeeds or fails, leaves presence and value of every key
\* that is not among the keys of the call as they were; and no other step,
\* the opens and closes of the store included, changes any key at all: an
\* assignment stays until a write to its key.
C32_NoCrossKeyInterference ==
    [][\A k \in KeysConc :
         \/ Untouched(k)
         \/ \E c \in Callers :
               /\ Writing(c)
               /\ WritesKey(op[c], k)
               /\ pc'[c] # pc[c]
               /\ \A x \in KeysConc : ~WritesKey(op[c], x) => Untouched(x)]_vars

\* a Remove of one key has succeeded next to another key, which still holds
\* its shard
C32_Witness ==
    /\ ret.call.name = "Remove"
    /\ ret.err = "nil"
    /\ \E k \in KeysConc :
          /\ ~WritesKey(ret.call, k)
          /\ Reads(store, k, MaxInt64)

\* the value stored under k is no base-10 int64 text
Corrupt(m, k) == Has(m, k) /\ ParseInt(m[k]).err # "nil"

\* C33: a corrupt entry fails its own lookup only.  A Get that reads a key
\* whose value is no base-10 int64 text returns ErrShardConversion, not
\* ErrShardNotFound; a Get that reads a key with a valid value returns that
\* shard and nil, whatever the other keys hold; either way the store is left
\* as it was and the handle is released.
C33_CorruptEntryIsolation ==
    [][\A c \in Callers :
         (pc[c] = "get" /\ Returns(c)) =>
            LET k == op[c].keys[1]
            IN  /\ Corrupt(store, k) => ret'.err = "ErrShardConversion"
                /\ (Has(store, k) /\ ~Corrupt(store, k))
                      => ret'.err = "nil" /\ ret'.shard = ParseInt(store[k]).n
                /\ store' = store
                /\ lock' = NoCaller]_vars

\* a Get has returned the shard of a key that is stored next to a corrupt one
C33_Witness ==
    /\ ret.call.name = "Get"
    /\ ret.err = "nil"
    /\ ret.shard = Seven
    /\ \E k \in DOMAIN store : k # ret.call.keys[1] /\ Corrupt(store, k)

\* the bytes are the base-10 text fmt.Sprintf("%d") gives for some int64
DecimalText(bytes) ==
    /\ ParseInt(bytes).err = "nil"
    /\ Sprintf(ParseInt(bytes).n) = bytes

\* C34: value format.  On a directory that only Add, Update and Remove have
\* written, every stored value is the base-10 text of an int64; no Get
\* returns ErrShardConversion; a Get that has read the store returned nil
\* exactly when its key is present, and an Exists that has read the store
\* returned true exactly when its key is present.
C34_ValueFormat ==
    /\ \A k \in DOMAIN store : DecimalText(store[k])
    /\ ret.err # "ErrShardConversion"
    /\ (ret.call.name = "Get" /\ ret.err \notin {"ErrEmptyKey", "ErrDatabaseOpen"})
          => /\ (ret.err = "nil") = Has(store, ret.call.keys[1])
             /\ ret.err = "nil" => Sprintf(ret.shard) = store[ret.call.keys[1]]
    /\ (ret.call.name = "Exists" /\ ret.err = "nil")
          => ret.exists = Has(store, ret.call.keys[1])

\* a Get has returned the most negative int64 from a directory that holds
\* the largest one too
C34_Witness ==
    /\ ret.call.name = "Get"
    /\ ret.err = "nil"
    /\ ret.shard = MinInt64
    /\ \E k \in DOMAIN store : store[k] = Sprintf(MaxInt64)

\* how far into its call a caller at position p is
Rank(p) ==
    CASE p = "idle" -> 0
      [] p = "update_open" -> 2
      [] p = "update_put" -> 3
      [] OTHER -> 1

ContainsAll(stored, msgs) ==
    \A i \in 1..Len(msgs) : \E j \in 1..Len(stored) : stored[j] = msgs[i]

\* C36: no lost chat messages.  For a conversation whose history successful
\* AddMessageToHistory calls have built, every message of a call that
\* returned nil is in the stored history, under every interleaving of the
\* calls.
C36_NoLostMessages ==
    \A id \in ConvIds :
        ContainsAll(StoredMessages(store, HistoryKey(id)), Recorded(HistoryKey(id)))

C38_RateBound ==
    \A clientIP \in ClientIPs :
        LET calls == CallsOf(clientIP)
        IN  /\ Has(rl.tokens, clientIP) => rl.tokens[clientIP] >= 0
            /\ \A i, j \in 1..Len(calls) :
                  (i <= j /\ calls[j].at - calls[i].at < TicksPerSecond)
                    => Cardinality({n \in i..j : calls[n].exists}) <= rl.config.BurstSize

\* C39: more than three components.  A path resolved from more than three
\* components is baseDir/namespace followed by all the components after the
\* second, so that each of them is part of the path returned.
C39_LaterComponentsAppended ==
    (/\ ret.call.name \in {"buildPath", "CreateLevelDBDatabase"}
     /\ ret.err = "nil"
     /\ Len(ret.call.keys) > 3)
       => ret.path = Join([i \in 1..Len(ret.call.keys) |-> TrimSpace(ret.call.keys[i])])
====
